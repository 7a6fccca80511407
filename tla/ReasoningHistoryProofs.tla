----------------------- MODULE ReasoningHistoryProofs -----------------------
(***************************************************************************)
(* With a single writer, killed or not, the segments of a history are      *)
(* immutable, their numbers are unique and the manifest is true to them:   *)
(* HistoryInv is inductive. With any number of writers SharedInv still is, *)
(* and what the manifest lists exists.                                     *)
(***************************************************************************)
EXTENDS ReasoningHistory, SequenceTheorems, TLAPS

\* Zero or one order is a sequence of orders.
LEMMA OptionalType ==
    ASSUME NEW c, NEW o \in Orders
    PROVE  Optional(c, o) \in Seq(Orders)
BY DEF Optional

\* The first segment of an analysis and its extras are a sequence of orders.
LEMMA OrdersType ==
    ASSUME NEW o \in Orders, NEW s \in Seq(Orders), NEW t \in Seq(Orders),
           NEW u \in Seq(Orders)
    PROVE  /\ <<o>> \o s \o t \o u \in Seq(Orders)
           /\ <<o>> \o s \o t \o u # <<>>
<1>1. <<o>> \in Seq(Orders) /\ Len(<<o>>) = 1
  OBVIOUS
<1>2. <<o>> \o s \in Seq(Orders) /\ Len(<<o>> \o s) = 1 + Len(s)
  BY <1>1, ConcatProperties
<1>3. /\ <<o>> \o s \o t \in Seq(Orders)
      /\ Len(<<o>> \o s \o t) = 1 + Len(s) + Len(t)
  BY <1>2, ConcatProperties
<1>4. /\ <<o>> \o s \o t \o u \in Seq(Orders)
      /\ Len(<<o>> \o s \o t \o u) = 1 + Len(s) + Len(t) + Len(u)
  BY <1>3, ConcatProperties
<1>5. Len(<<o>> \o s \o t \o u) > 0
  <2>1. Len(s) \in Nat /\ Len(t) \in Nat /\ Len(u) \in Nat
    OBVIOUS
  <2> QED
    BY <1>4, <2>1
<1> QED
  BY <1>4, <1>5

\* The next number is above every number in the directory.
LEMMA NextNumberIsNew ==
    ASSUME TypeOK, HasNewest
    PROVE  /\ NextNumber \in Nat
           /\ \A m \in Numbers : m < NextNumber
<1> DEFINE top == CHOOSE n \in Numbers \union {0} : \A m \in Numbers : m <= n
<1>1. Numbers \subseteq Nat
  BY DEF TypeOK, Numbers, Names
<1>2. top \in Numbers \union {0} /\ \A m \in Numbers : m <= top
  BY DEF HasNewest
<1>3. NextNumber = 1 + top
  BY DEF NextNumber
<1> HIDE DEF top
<1>4. top \in Nat
  BY <1>1, <1>2
<1> QED
  BY <1>1, <1>2, <1>3, <1>4

\* A file that gets a new number keeps the directory in order.
LEMMA NewFile ==
    ASSUME TypeOK, HasNewest, NumbersUnique,
           NEW n \in Names, Newer(n), NEW c, WriteFile(n, c)
    PROVE  HasNewest' /\ NumbersUnique'
<1>1. DOMAIN files' = DOMAIN files \union {n}
  BY DEF WriteFile
<1>2. Numbers' = Numbers \union {n.num}
  BY <1>1 DEF Numbers
<1>3. HasNewest'
  <2>1. n.num \in Nat /\ Numbers \subseteq Nat
    BY DEF TypeOK, Numbers, Names
  <2>2. \A m \in Numbers' : m <= n.num
    BY <1>2, <2>1 DEF Newer
  <2> QED
    BY <1>2, <2>2 DEF HasNewest
<1>4. NumbersUnique'
  <2>1. \A m \in DOMAIN files : m.num \in Nat /\ m.num < n.num
    BY DEF Newer, Numbers, TypeOK, Names
  <2>2. n.num \in Nat
    BY DEF Names
  <2> QED
    BY <1>1, <2>1, <2>2 DEF NumbersUnique
<1> QED
  BY <1>3, <1>4

\* The dependencies finalize records are segment names.
LEMMA HeadType ==
    ASSUME TypeOK
    PROVE  HeadDeps \in SUBSET Names
<1>1. CASE index = <<>>
  BY <1>1 DEF HeadDeps
<1>2. CASE index # <<>>
  <2>1. index \in Seq(Entries) /\ Len(index) \in 1..Len(index)
    BY <1>2 DEF TypeOK
  <2>2. index[Len(index)] \in Entries
    BY <2>1, ElementOfSeq
  <2> QED
    BY <1>2, <2>2 DEF HeadDeps, HeadName, Entries
<1> QED
  BY <1>1, <1>2

\* A process that has segments to append has one to append next.
LEMMA OrderType ==
    ASSUME TypeOK, NEW p \in Processes, todo[p] # <<>>
    PROVE  /\ Head(todo[p]).src \in Sources
           /\ Head(todo[p]).hash \in Nat
           /\ Tail(todo[p]) \in Seq(Orders)
<1>1. todo[p] \in Seq(Orders)
  BY DEF TypeOK
<1>2. Head(todo[p]) \in Orders /\ Tail(todo[p]) \in Seq(Orders)
  BY <1>1, HeadTailProperties
<1> QED
  BY <1>2 DEF Orders

\* An empty directory and no manifest are in order.
LEMMA HistoryInit == Init => HistoryInv
<1> SUFFICES ASSUME Init
             PROVE  HistoryInv
  OBVIOUS
<1>1. DOMAIN files = {} /\ Numbers = {}
  BY DEF Init, Numbers
<1>2. TypeOK
  BY <1>1, HistoryAssumption
     DEF Init, TypeOK, Names, Sources, Steps, NoName
<1>3. HasNewest /\ NumbersUnique /\ IndexFaithful
  BY <1>1 DEF Init, HasNewest, NumbersUnique, IndexFaithful, Faithful
<1>4. ASSUME NEW p \in Processes
      PROVE  WriterOK(p)
  BY DEF Init, WriterOK
<1> QED
  BY <1>2, <1>3, <1>4 DEF HistoryInv

\* A process in the middle of a command has a segment to append.
HasOrders == \A p \in Processes : pc[p] # "idle" => todo[p] # <<>>

\* The steps keep the types.
LEMMA HistoryType ==
    ASSUME TypeOK, HasNewest, HasOrders, Next
    PROVE  TypeOK'
<1>1. CASE Edit
  BY <1>1, HistoryAssumption DEF Edit, process, TypeOK
<1>2. ASSUME NEW p \in Processes, NEW extras \in SUBSET Extras,
             Analyse(p, extras)
      PROVE  TypeOK'
  <2> DEFINE f == clock + 1
             a == IF extras = {} THEN f ELSE clock + 2
             E(s) == Optional(s \in extras, [src |-> s, hash |-> a])
             first == [src |-> "rules_fallback", hash |-> f]
             all == <<first>> \o E("agent_multitrack") \o E("deep_analysis")
                      \o E("agent_conclusion_override")
  <2>1. f \in Nat /\ a \in Nat /\ first \in Orders
    BY DEF TypeOK, Orders, Sources
  <2>2. clock' = a /\ analysis' = a /\ Order(p, all, {}) /\ Issue(p)
    BY <1>2 DEF Analyse
  <2> HIDE DEF a
  <2>3. /\ E("agent_multitrack") \in Seq(Orders)
        /\ E("deep_analysis") \in Seq(Orders)
        /\ E("agent_conclusion_override") \in Seq(Orders)
    BY <2>1, OptionalType DEF Orders, Sources
  <2>4. all \in Seq(Orders)
    BY <2>1, <2>3, OrdersType
  <2>5. UNCHANGED <<files, index, published, name, loaded>>
    BY <1>2 DEF Analyse
  <2> HIDE DEF all
  <2> QED
    BY <2>1, <2>4, <2>2, <2>5, HistoryAssumption
       DEF Order, Issue, Goto, TypeOK, Steps
<1>3. ASSUME NEW p \in Processes, Finalize(p)
      PROVE  TypeOK'
  <2>1. PICK a \in {analysis, clock + 1} :
           /\ clock' = IF a = analysis THEN clock ELSE clock + 1
           /\ analysis' = a
           /\ Order(p, Optional(Unrecorded(a),
                                [src |-> "agent_refinement", hash |-> a]),
                    HeadDeps)
    BY <1>3 DEF Finalize
  <2>2. a \in Nat /\ clock' \in Nat
    BY <2>1 DEF TypeOK
  <2>3. Optional(Unrecorded(a), [src |-> "agent_refinement", hash |-> a])
          \in Seq(Orders)
    BY <2>2, OptionalType DEF Unrecorded, Orders, Sources
  <2>4. HeadDeps \in SUBSET Names
    BY HeadType
  <2>5. Issue(p) /\ UNCHANGED <<files, index, published, name, loaded>>
    BY <1>3 DEF Finalize
  <2> DEFINE all == Optional(Unrecorded(a),
                             [src |-> "agent_refinement", hash |-> a])
  <2> HIDE DEF all
  <2> QED
    BY <2>1, <2>2, <2>3, <2>4, <2>5, HistoryAssumption
       DEF Order, Issue, Goto, TypeOK, Steps
<1>4. ASSUME NEW p \in Processes, ChooseName(p)
      PROVE  TypeOK'
  <2>1. todo[p] # <<>>
    BY <1>4 DEF ChooseName, HasOrders
  <2>2. Head(todo[p]).src \in Sources /\ NextNumber \in Nat
    BY <2>1, OrderType, NextNumberIsNew
  <2>3. [num |-> NextNumber, src |-> Head(todo[p]).src] \in Names
    BY <2>2 DEF Names
  <2> QED
    BY <1>4, <2>3 DEF ChooseName, Goto, TypeOK, Steps
<1>5. ASSUME NEW p \in Processes, CheckName(p) \/ Kill(p)
      PROVE  TypeOK'
  <2>1. NoName \in Names
    BY DEF NoName, Names, Sources
  <2>2. <<>> \in Seq(Orders) /\ <<>> \in Seq(Entries)
    OBVIOUS
  <2>3. /\ \/ Stop(p)
           \/ /\ Goto(p, "create")
              /\ UNCHANGED <<todo, deps, name, loaded>>
        /\ UNCHANGED <<analysis, files, index, published, clock, issued>>
    BY <1>5 DEF CheckName, Kill
  <2>4. CASE Stop(p)
    BY <2>1, <2>2, <2>3, <2>4 DEF Stop, Goto, TypeOK, Steps
  <2>5. CASE Goto(p, "create") /\ UNCHANGED <<todo, deps, name, loaded>>
    BY <2>3, <2>5 DEF Goto, TypeOK, Steps
  <2> QED
    BY <2>3, <2>4, <2>5
<1>6. ASSUME NEW p \in Processes, CreateFile(p)
      PROVE  TypeOK'
  BY <1>6 DEF CreateFile, WriteFile, Empty, Goto, TypeOK, Steps
<1>7. ASSUME NEW p \in Processes, DumpFile(p)
      PROVE  TypeOK'
  <2>1. todo[p] # <<>>
    BY <1>7 DEF DumpFile, HasOrders
  <2>2. Head(todo[p]).hash \in Nat
    BY <2>1, OrderType
  <2> QED
    BY <1>7, <2>2 DEF DumpFile, WriteFile, Goto, TypeOK, Steps
<1>8. ASSUME NEW p \in Processes, LoadManifest(p) \/ TruncateManifest(p)
      PROVE  TypeOK'
  <2>1. <<>> \in Seq(Entries)
    OBVIOUS
  <2>2. CASE LoadManifest(p)
    BY <2>2 DEF LoadManifest, Goto, TypeOK, Steps
  <2>3. CASE TruncateManifest(p)
    BY <2>1, <2>3 DEF TruncateManifest, Goto, TypeOK, Steps
  <2> QED
    BY <1>8, <2>2, <2>3
<1>9. ASSUME NEW p \in Processes, DumpManifest(p)
      PROVE  TypeOK'
  <2>1. todo[p] # <<>>
    BY <1>9 DEF DumpManifest, HasOrders
  <2>2. Head(todo[p]).hash \in Nat /\ Tail(todo[p]) \in Seq(Orders)
    BY <2>1, OrderType
  <2>3. Entry(p) \in Entries
    BY <2>2 DEF Entry, Entries, TypeOK
  <2>4. Append(loaded[p], Entry(p)) \in Seq(Entries)
    BY <2>3 DEF TypeOK
  <2>5. NoName \in Names
    BY DEF NoName, Names, Sources
  <2> QED
    BY <1>9, <2>2, <2>4, <2>5 DEF DumpManifest, Goto, TypeOK, Steps
<1> QED
  BY <1>1, <1>2, <1>3, <1>4, <1>5, <1>6, <1>7, <1>8, <1>9
     DEF Next, WriteSegment

-----------------------------------------------------------------------------
(* The steps of a single writer. *)

\* A step that neither touches the files nor the manifest keeps what they say
\* of each other, and what a writer knows of them.
LEMMA FilesKept ==
    ASSUME HistoryInv, UNCHANGED <<files, index>>
    PROVE  HasNewest' /\ NumbersUnique' /\ IndexFaithful'
BY DEF HistoryInv, HasNewest, Numbers, NumbersUnique, IndexFaithful, Faithful

\* The steps keep the manifest faithful, and the directory in order.
LEMMA HistoryFiles ==
    ASSUME HistoryInv, TypeOK', Next
    PROVE  HasNewest' /\ NumbersUnique' /\ IndexFaithful'
<1>1. ASSUME UNCHANGED <<files, index>>
      PROVE  HasNewest' /\ NumbersUnique' /\ IndexFaithful'
  BY <1>1, FilesKept
<1>2. ASSUME NEW p \in Processes, CreateFile(p)
      PROVE  HasNewest' /\ NumbersUnique' /\ IndexFaithful'
  <2>1. WriteFile(name[p], Empty) /\ Newer(name[p]) /\ index' = index
    BY <1>2 DEF CreateFile, HistoryInv, WriterOK
  <2>2. HasNewest' /\ NumbersUnique'
    BY <2>1, NewFile DEF HistoryInv, TypeOK
  <2>3. name[p] \notin DOMAIN files
    <3>1. name[p].num \in Nat
      BY DEF HistoryInv, TypeOK, Names
    <3>2. ~(name[p].num < name[p].num)
      BY <3>1
    <3> QED
      BY <2>1, <3>2 DEF Newer, Numbers
  <2>4. \A n \in DOMAIN files : n \in DOMAIN files' /\ files'[n] = files[n]
    BY <2>1, <2>3 DEF WriteFile
  <2>5. IndexFaithful'
    BY <2>1, <2>4 DEF HistoryInv, IndexFaithful, Faithful
  <2> QED
    BY <2>2, <2>5
<1>3. ASSUME NEW p \in Processes, DumpFile(p)
      PROVE  HasNewest' /\ NumbersUnique' /\ IndexFaithful'
  <2> DEFINE content == [hash |-> Head(todo[p]).hash, deps |-> deps[p]]
  <2>1. /\ WriteFile(name[p], content)
        /\ name[p] \in DOMAIN files
        /\ \A k \in 1..Len(index) : index[k].name # name[p]
        /\ index' = index
    BY <1>3 DEF DumpFile, HistoryInv, WriterOK
  <2>2. /\ DOMAIN files' = DOMAIN files
        /\ \A n \in DOMAIN files : n # name[p] => files'[n] = files[n]
    BY <2>1 DEF WriteFile
  <2>3. HasNewest' /\ NumbersUnique'
    BY <2>2 DEF HistoryInv, HasNewest, NumbersUnique, Numbers
  <2>4. IndexFaithful'
    BY <2>1, <2>2 DEF HistoryInv, IndexFaithful, Faithful
  <2> QED
    BY <2>3, <2>4
<1>4. ASSUME NEW p \in Processes, TruncateManifest(p)
      PROVE  HasNewest' /\ NumbersUnique' /\ IndexFaithful'
  <2>1. files' = files /\ Len(index') = 0
    BY <1>4 DEF TruncateManifest
  <2>2. HasNewest' /\ NumbersUnique'
    BY <2>1 DEF HistoryInv, HasNewest, NumbersUnique, Numbers
  <2>3. IndexFaithful'
    BY <2>1 DEF IndexFaithful, Faithful
  <2> QED
    BY <2>2, <2>3
<1>5. ASSUME NEW p \in Processes, DumpManifest(p)
      PROVE  HasNewest' /\ NumbersUnique' /\ IndexFaithful'
  <2>1. files' = files /\ index' = Append(loaded[p], Entry(p))
    BY <1>5 DEF DumpManifest
  <2>2. HasNewest' /\ NumbersUnique'
    BY <2>1 DEF HistoryInv, HasNewest, NumbersUnique, Numbers
  <2>3. /\ Faithful(loaded[p])
        /\ name[p] \in DOMAIN files
        /\ files[name[p]] = [hash |-> Head(todo[p]).hash, deps |-> deps[p]]
        /\ loaded[p] \in Seq(Entries)
    BY <1>5 DEF DumpManifest, HistoryInv, WriterOK, TypeOK
  <2>4. ASSUME NEW k \in 1..Len(index')
        PROVE  /\ index'[k].name \in DOMAIN files
               /\ files[index'[k].name] =
                     [hash |-> index'[k].hash, deps |-> index'[k].deps]
    <3>1. /\ Len(index') = Len(loaded[p]) + 1
          /\ index'[Len(loaded[p]) + 1] = Entry(p)
          /\ \A j \in 1..Len(loaded[p]) : index'[j] = loaded[p][j]
      BY <2>1, <2>3
    <3>2. CASE k = Len(loaded[p]) + 1
      BY <2>3, <3>1, <3>2 DEF Entry
    <3>3. CASE k \in 1..Len(loaded[p])
      BY <2>3, <3>1, <3>3 DEF Faithful
    <3> QED
      BY <2>3, <3>1, <3>2, <3>3
  <2>5. IndexFaithful'
    BY <2>1, <2>4 DEF IndexFaithful, Faithful
  <2> QED
    BY <2>2, <2>5
<1>6. ASSUME NEW p \in Processes, NEW extras \in SUBSET Extras,
             Analyse(p, extras)
      PROVE  UNCHANGED <<files, index>>
  BY <1>6 DEF Analyse
<1>7. ASSUME NEW p \in Processes,
             \/ Finalize(p) \/ ChooseName(p) \/ CheckName(p)
             \/ LoadManifest(p) \/ Kill(p)
      PROVE  UNCHANGED <<files, index>>
  BY <1>7 DEF Finalize, ChooseName, CheckName, LoadManifest, Kill
<1>8. CASE Edit
  BY <1>1, <1>8 DEF Edit
<1> QED
  BY <1>1, <1>2, <1>3, <1>4, <1>5, <1>6, <1>7, <1>8 DEF Next, WriteSegment

\* After its own step, a writer knows what the files hold.
LEMMA HistoryWriter ==
    ASSUME HistoryInv, TypeOK', Next, NEW q \in Processes,
           \A p \in Processes : p = q
    PROVE  WriterOK(q)'
<1> USE DEF HistoryInv
<1>1. CASE Edit
  BY <1>1 DEF Edit, process, WriterOK, Newer, Numbers, Faithful
<1>2. ASSUME NEW extras \in SUBSET Extras, Analyse(q, extras)
      PROVE  WriterOK(q)'
  <2>1. PICK orders : Order(q, orders, {})
    BY <1>2 DEF Analyse
  <2>2. CASE orders = <<>>
    BY <2>1, <2>2 DEF Order, Goto, WriterOK, TypeOK
  <2>3. CASE orders # <<>>
    BY <2>1, <2>3 DEF Order, Goto, WriterOK, TypeOK
  <2> QED
    BY <2>2, <2>3
<1>3. CASE Finalize(q)
  <2>1. PICK orders : Order(q, orders, HeadDeps)
    BY <1>3 DEF Finalize
  <2>2. CASE orders = <<>>
    BY <2>1, <2>2 DEF Order, Goto, WriterOK, TypeOK
  <2>3. CASE orders # <<>>
    BY <2>1, <2>3 DEF Order, Goto, WriterOK, TypeOK
  <2> QED
    BY <2>2, <2>3
<1>4. CASE ChooseName(q)
  <2>1. \A m \in Numbers : m < NextNumber
    BY NextNumberIsNew
  <2>2. name'[q].num = NextNumber /\ pc'[q] = "check" /\ files' = files
    BY <1>4 DEF ChooseName, Goto, TypeOK
  <2>3. Newer(name[q])'
    BY <2>1, <2>2 DEF Newer, Numbers
  <2> QED
    BY <1>4, <2>2, <2>3 DEF ChooseName, Goto, WriterOK, TypeOK
<1>5. CASE CheckName(q)
  BY <1>5 DEF CheckName, Stop, Goto, WriterOK, Newer, Numbers, TypeOK
<1>6. CASE CreateFile(q)
  <2>1. /\ name[q] \in DOMAIN files'
        /\ files'[name[q]] = Empty
        /\ DOMAIN files' = DOMAIN files \union {name[q]}
    BY <1>6 DEF CreateFile, WriteFile
  <2>2. name[q] \notin DOMAIN files
    <3>1. Newer(name[q]) /\ name[q].num \in Nat
      BY <1>6 DEF CreateFile, WriterOK, TypeOK, Names
    <3>2. ~(name[q].num < name[q].num)
      BY <3>1
    <3> QED
      BY <3>1, <3>2 DEF Newer, Numbers
  <2>3. \A k \in 1..Len(index) : index[k].name # name[q]
    BY <2>2 DEF IndexFaithful, Faithful
  <2> QED
    BY <1>6, <2>1, <2>3 DEF CreateFile, Goto, WriterOK, TypeOK
<1>7. CASE DumpFile(q)
  <2>1. /\ name[q] \in DOMAIN files'
        /\ files'[name[q]] = [hash |-> Head(todo[q]).hash, deps |-> deps[q]]
    BY <1>7 DEF DumpFile, WriteFile
  <2> QED
    BY <1>7, <2>1 DEF DumpFile, Goto, WriterOK, TypeOK
<1>8. CASE LoadManifest(q)
  BY <1>8 DEF LoadManifest, Goto, WriterOK, IndexFaithful, Faithful, TypeOK
<1>9. CASE TruncateManifest(q)
  BY <1>9 DEF TruncateManifest, Goto, WriterOK, Faithful, TypeOK
<1>10. CASE DumpManifest(q)
  BY <1>10 DEF DumpManifest, Goto, WriterOK, TypeOK
<1>11. CASE Kill(q)
  BY <1>11 DEF Kill, Stop, Goto, WriterOK, TypeOK
<1> QED
  BY <1>1, <1>2, <1>3, <1>4, <1>5, <1>6, <1>7, <1>8, <1>9, <1>10, <1>11
     DEF Next, WriteSegment

\* Every step of a single writer, and every edit, preserves the invariant.
LEMMA HistoryStep ==
    ASSUME SingleWriter, HistoryInv, [Next]_vars
    PROVE  HistoryInv'
<1>1. CASE Next
  <2>1. TypeOK'
    BY <1>1, HistoryType DEF HistoryInv, HasOrders, WriterOK
  <2>2. HasNewest' /\ NumbersUnique' /\ IndexFaithful'
    BY <1>1, <2>1, HistoryFiles
  <2>3. ASSUME NEW q \in Processes
        PROVE  WriterOK(q)'
    BY <1>1, <2>1, HistoryWriter DEF SingleWriter
  <2> QED
    BY <2>1, <2>2, <2>3 DEF HistoryInv
<1>2. CASE UNCHANGED vars
  BY <1>2 DEF vars, process, HistoryInv, TypeOK, HasNewest, Numbers,
     NumbersUnique, IndexFaithful, Faithful, WriterOK, Newer
<1> QED
  BY <1>1, <1>2

\* A step of a single writer leaves complete segment files as they are.
LEMMA HistoryImmutable ==
    ASSUME HistoryInv, [Next]_vars, NEW n \in DOMAIN files, files[n].hash > 0
    PROVE  n \in DOMAIN files' /\ files'[n] = files[n]
<1>1. ASSUME files' = files
      PROVE  n \in DOMAIN files' /\ files'[n] = files[n]
  BY <1>1
<1>2. ASSUME NEW p \in Processes, CreateFile(p)
      PROVE  n \in DOMAIN files' /\ files'[n] = files[n]
  <2>1. WriteFile(name[p], Empty) /\ Newer(name[p]) /\ name[p].num \in Nat
    BY <1>2 DEF CreateFile, HistoryInv, WriterOK, TypeOK, Names
  <2>2. ~(name[p].num < name[p].num)
    BY <2>1
  <2>3. n # name[p]
    BY <2>1, <2>2 DEF Newer, Numbers
  <2> QED
    BY <2>1, <2>3 DEF WriteFile
<1>3. ASSUME NEW p \in Processes, DumpFile(p)
      PROVE  n \in DOMAIN files' /\ files'[n] = files[n]
  <2>1. files[name[p]] = Empty
    BY <1>3 DEF DumpFile, HistoryInv, WriterOK
  <2>2. n # name[p]
    BY <2>1 DEF Empty
  <2> QED
    BY <1>3, <2>2 DEF DumpFile, WriteFile
<1>4. ASSUME NEW p \in Processes, NEW extras \in SUBSET Extras,
             Analyse(p, extras)
      PROVE  files' = files
  BY <1>4 DEF Analyse
<1>5. ASSUME NEW p \in Processes,
             \/ Finalize(p) \/ ChooseName(p) \/ CheckName(p)
             \/ LoadManifest(p) \/ TruncateManifest(p) \/ DumpManifest(p)
             \/ Kill(p)
      PROVE  files' = files
  BY <1>5 DEF Finalize, ChooseName, CheckName, LoadManifest,
     TruncateManifest, DumpManifest, Kill
<1>6. CASE Edit \/ UNCHANGED vars
  BY <1>1, <1>6 DEF Edit, vars
<1> QED
  BY <1>1, <1>2, <1>3, <1>4, <1>5, <1>6 DEF Next, WriteSegment

-----------------------------------------------------------------------------
\* HistoryInv holds in every reachable state of a single writer.
THEOREM History ==
    ASSUME SingleWriter
    PROVE  Spec => []HistoryInv
<1>1. HistoryInv /\ [Next]_vars => HistoryInv'
  BY HistoryStep
<1> QED
  BY <1>1, HistoryInit, PTL DEF Spec

\* With a single writer, killed anywhere and any number of times, no two
\* segment files share a number.
THEOREM NumbersAreUnique ==
    ASSUME SingleWriter
    PROVE  Spec => []NumbersUnique
<1>1. HistoryInv => NumbersUnique
  BY DEF HistoryInv
<1> QED
  BY <1>1, History, PTL

\* With a single writer, whatever the manifest lists is in the file it names,
\* with the hash and the dependencies it lists.
THEOREM IndexIsFaithful ==
    ASSUME SingleWriter
    PROVE  Spec => []IndexFaithful
<1>1. HistoryInv => IndexFaithful
  BY DEF HistoryInv
<1> QED
  BY <1>1, History, PTL

\* With a single writer the history is append-only: a complete segment file is
\* never written again.
THEOREM SegmentsAreImmutable ==
    ASSUME SingleWriter
    PROVE  Spec => SegmentsImmutable
<1>1. HistoryInv /\ [Next]_vars =>
         [\A n \in DOMAIN files : files[n].hash > 0 =>
             n \in DOMAIN files' /\ files'[n] = files[n]]_vars
  BY HistoryImmutable
<1> QED
  BY <1>1, History, PTL DEF Spec, SegmentsImmutable

-----------------------------------------------------------------------------
(* The manifest of a single writer implements the log of segments. *)

\* The log is the one that its only writer knows.
LEMMA LogIsOfWriter ==
    ASSUME SingleWriter, NEW p \in Processes
    PROVE  Log = LogOf(p) /\ Log' = LogOf(p)'
<1>1. Log = LogOf(p)
  <2>1. CASE pc[p] = "index"
    <3>1. (CHOOSE q \in Processes : pc[q] = "index") = p
      BY <2>1 DEF SingleWriter
    <3> QED
      BY <2>1, <3>1 DEF Log, LogOf
  <2>2. CASE pc[p] # "index"
    BY <2>2 DEF Log, LogOf, SingleWriter
  <2> QED
    BY <2>1, <2>2
<1>2. Log' = LogOf(p)'
  <2>1. CASE pc'[p] = "index"
    <3>1. (CHOOSE q \in Processes : pc'[q] = "index") = p
      BY <2>1 DEF SingleWriter
    <3> QED
      BY <2>1, <3>1 DEF Log, LogOf
  <2>2. CASE pc'[p] # "index"
    BY <2>2 DEF Log, LogOf, SingleWriter
  <2> QED
    BY <2>1, <2>2
<1> QED
  BY <1>1, <1>2

\* A sequence with one more entry lists one more name.
LEMMA NamesOfAppend ==
    ASSUME NEW l \in Seq(Entries), NEW e \in Entries
    PROVE  NamesOf(Append(l, e)) = NamesOf(l) \union {e.name}
<1> DEFINE m == Append(l, e)
<1>1. /\ Len(m) = Len(l) + 1 /\ Len(l) \in Nat
      /\ m[Len(l) + 1] = e
      /\ \A k \in 1..Len(l) : m[k] = l[k]
  OBVIOUS
<1> HIDE DEF m
<1>2. ASSUME NEW n \in NamesOf(m)
      PROVE  n \in NamesOf(l) \union {e.name}
  <2>1. PICK k \in 1..Len(m) : n = m[k].name
    BY DEF NamesOf
  <2> QED
    BY <1>1, <2>1 DEF NamesOf
<1>3. ASSUME NEW n \in NamesOf(l) \union {e.name}
      PROVE  n \in NamesOf(m)
  <2>1. CASE n = e.name
    BY <1>1, <2>1 DEF NamesOf
  <2>2. CASE n \in NamesOf(l)
    <3>1. PICK k \in 1..Len(l) : n = l[k].name
      BY <2>2 DEF NamesOf
    <3>2. k \in 1..Len(m) /\ m[k] = l[k]
      BY <1>1
    <3> QED
      BY <3>1, <3>2 DEF NamesOf
  <2> QED
    BY <1>3, <2>1, <2>2
<1> QED
  BY <1>2, <1>3 DEF m

\* Every listed name is that of a file.
LEMMA ListedIsFile ==
    ASSUME IndexFaithful
    PROVE  NamesOf(index) \subseteq DOMAIN files
BY DEF IndexFaithful, Faithful, NamesOf

\* Nothing is written or listed at first.
LEMMA LogInit == Init => LogInv
BY DEF Init, LogInv, LogWriterOK

\* The writer's own steps keep what it knows of the log.
LEMMA LogStep ==
    ASSUME HistoryInv, HistoryInv', LogInv, SingleWriter, Next,
           NEW p \in Processes
    PROVE  LogWriterOK(p)'
<1> USE DEF HistoryInv
<1>0. LogWriterOK(p)
  BY DEF LogInv
<1>1. CASE Edit
  BY <1>0, <1>1 DEF Edit, process, LogWriterOK, LogOf, NamesOf
<1>2. ASSUME NEW extras \in SUBSET Extras, Analyse(p, extras)
      PROVE  LogWriterOK(p)'
  <2>1. PICK orders : Order(p, orders, {})
    BY <1>2 DEF Analyse
  <2>2. deps'[p] = {} /\ pc'[p] \in {"idle", "choose"}
    BY <2>1 DEF Order, Goto, TypeOK
  <2> QED
    BY <2>2 DEF LogWriterOK
<1>3. CASE Finalize(p)
  <2>1. PICK orders : Order(p, orders, HeadDeps)
    BY <1>3 DEF Finalize
  <2>2. deps'[p] = HeadDeps /\ pc'[p] \in {"idle", "choose"} /\ index' = index
    BY <1>3, <2>1 DEF Finalize, Order, Goto, TypeOK
  <2>3. HeadDeps \subseteq NamesOf(index)
    <3>1. CASE index # <<>>
      <4>1. Len(index) \in 1..Len(index)
        BY <3>1 DEF TypeOK
      <4> QED
        BY <4>1 DEF HeadDeps, HeadName, NamesOf
    <3>2. CASE index = <<>>
      BY <3>2 DEF HeadDeps
    <3> QED
      BY <3>1, <3>2
  <2>4. LogOf(p)' = index
    BY <2>2 DEF LogOf
  <2> QED
    BY <2>2, <2>3, <2>4 DEF LogWriterOK, NamesOf
<1>4. CASE ChooseName(p)
  <2>1. pc[p] = "choose" /\ pc'[p] = "check" /\ UNCHANGED <<index, deps>>
    BY <1>4 DEF ChooseName, Goto, TypeOK
  <2> QED
    BY <1>0, <2>1 DEF LogWriterOK, LogOf, NamesOf
<1>5. CASE CheckName(p)
  <2>1. CASE Stop(p)
    <3>1. pc'[p] = "idle"
      BY <2>1 DEF Stop, Goto, TypeOK
    <3> QED
      BY <3>1 DEF LogWriterOK
  <2>2. CASE Goto(p, "create") /\ UNCHANGED <<todo, deps, name, loaded>>
    <3>1. pc[p] = "check" /\ pc'[p] = "create" /\ UNCHANGED <<index, deps>>
      BY <1>5, <2>2 DEF CheckName, Goto, TypeOK
    <3> QED
      BY <1>0, <3>1 DEF LogWriterOK, LogOf, NamesOf
  <2> QED
    BY <1>5, <2>1, <2>2 DEF CheckName
<1>6. CASE CreateFile(p)
  <2>1. /\ pc[p] = "create" /\ pc'[p] = "dump"
        /\ UNCHANGED <<index, deps, name>>
    BY <1>6 DEF CreateFile, Goto, TypeOK
  <2>2. \A n \in NamesOf(index) : n.num < name[p].num
    BY <2>1, ListedIsFile DEF WriterOK, Newer, Numbers
  <2>3. LogOf(p) = index /\ LogOf(p)' = index
    BY <2>1 DEF LogOf
  <2>4. NamesOf(LogOf(p))' = NamesOf(index)
    BY <2>3 DEF NamesOf
  <2> QED
    BY <1>0, <2>1, <2>2, <2>3, <2>4 DEF LogWriterOK
<1>7. CASE DumpFile(p)
  <2>1. /\ pc[p] = "dump" /\ pc'[p] = "load"
        /\ UNCHANGED <<index, deps, name>>
    BY <1>7 DEF DumpFile, Goto, TypeOK
  <2> QED
    BY <1>0, <2>1 DEF LogWriterOK, LogOf, NamesOf
<1>8. CASE LoadManifest(p)
  <2>1. /\ pc[p] = "load" /\ pc'[p] = "truncate" /\ loaded'[p] = index
        /\ UNCHANGED <<index, deps, name>>
    BY <1>8 DEF LoadManifest, Goto, TypeOK
  <2> QED
    BY <1>0, <2>1 DEF LogWriterOK, LogOf, NamesOf
<1>9. CASE TruncateManifest(p)
  <2>1. /\ pc[p] = "truncate" /\ pc'[p] = "index" /\ index' = <<>>
        /\ UNCHANGED <<loaded, deps, name>>
    BY <1>9 DEF TruncateManifest, Goto, TypeOK
  <2>2. LogOf(p)' = LogOf(p)
    BY <1>0, <2>1 DEF LogWriterOK, LogOf
  <2> QED
    BY <1>0, <2>1, <2>2 DEF LogWriterOK, NamesOf
<1>10. CASE DumpManifest(p)
  <2>1. /\ pc[p] = "index" /\ pc'[p] \in {"idle", "choose"}
        /\ index' = Append(loaded[p], Entry(p))
        /\ deps'[p] = {name[p]}
    BY <1>10 DEF DumpManifest, Goto, TypeOK
  <2>2. todo[p] # <<>>
    BY <2>1 DEF WriterOK
  <2>3. Entry(p) \in Entries
    BY <2>2, OrderType DEF Entry, Entries, TypeOK
  <2>4. LogOf(p)' = Append(loaded[p], Entry(p))
    BY <2>1 DEF LogOf
  <2>5. NamesOf(LogOf(p))' = NamesOf(loaded[p]) \union {name[p]}
    <3>1. NamesOf(LogOf(p))' = NamesOf(Append(loaded[p], Entry(p)))
      BY <2>4 DEF NamesOf
    <3>2. loaded[p] \in Seq(Entries)
      BY DEF TypeOK
    <3>3. Entry(p).name = name[p]
      BY DEF Entry
    <3> QED
      BY <2>3, <3>1, <3>2, <3>3, NamesOfAppend
  <2> QED
    BY <2>1, <2>5 DEF LogWriterOK
<1>11. CASE Kill(p)
  <2>1. pc'[p] = "idle"
    BY <1>11 DEF Kill, Stop, Goto, TypeOK
  <2> QED
    BY <2>1 DEF LogWriterOK
<1> QED
  BY <1>1, <1>2, <1>3, <1>4, <1>5, <1>6, <1>7, <1>8, <1>9, <1>10, <1>11
     DEF Next, WriteSegment, SingleWriter

\* What the writer appends is a consistent entry of the log.
LEMMA DumpAppends ==
    ASSUME HistoryInv, LogInv, SingleWriter, NEW p \in Processes,
           DumpManifest(p)
    PROVE  Published!AppendEntry
<1> DEFINE l == loaded[p]
           e == Entry(p)
<1>1. /\ pc[p] = "index" /\ pc'[p] \in {"idle", "choose"}
      /\ index' = Append(l, e)
  BY DEF DumpManifest, Goto, HistoryInv, TypeOK
<1>2. l \in Seq(Entries) /\ e \in Entries
  BY <1>1, OrderType DEF HistoryInv, TypeOK, WriterOK, Entry, Entries
<1>3. Log = l /\ Log' = Append(l, e)
  BY <1>1, LogIsOfWriter DEF LogOf
<1>4. /\ \A n \in NamesOf(l) : n.num < e.name.num
      /\ e.deps \subseteq NamesOf(l)
  BY <1>1 DEF LogInv, LogWriterOK, LogOf, Entry
<1> HIDE DEF l, e
<1>5. /\ Len(Append(l, e)) = Len(l) + 1 /\ Len(l) \in Nat
      /\ Append(l, e)[Len(l) + 1] = e
      /\ \A k \in 1..Len(l) : Append(l, e)[k] = l[k]
  BY <1>2
<1>6. SubSeq(Append(l, e), 1, Len(l)) = l
  BY <1>2
<1>7. Published!Consistent(Append(l, e))
  <2>1. {Append(l, e)[k].name : k \in 1..(Len(Append(l, e)) - 1)} = NamesOf(l)
    BY <1>5 DEF NamesOf
  <2> QED
    BY <1>4, <1>5, <2>1 DEF Published!Consistent
<1> QED
  BY <1>3, <1>5, <1>6, <1>7 DEF Published!AppendEntry

\* Every step of a single writer is one of the log, or leaves it alone.
LEMMA StepImplements ==
    ASSUME HistoryInv, LogInv, SingleWriter, [Next]_vars
    PROVE  [Published!Next]_Log
<1>1. ASSUME NEW p \in Processes, DumpManifest(p)
      PROVE  [Published!Next]_Log
  BY <1>1, DumpAppends DEF Published!Next
<1>2. ASSUME NEW p \in Processes, TruncateManifest(p)
      PROVE  Log' = Log
  <2>1. pc[p] = "truncate" /\ pc'[p] = "index" /\ loaded' = loaded
    BY <1>2 DEF TruncateManifest, Goto, HistoryInv, TypeOK
  <2>2. loaded[p] = index
    BY <2>1 DEF LogInv, LogWriterOK
  <2> QED
    BY <2>1, <2>2, LogIsOfWriter DEF LogOf
<1>3. ASSUME NEW p \in Processes, Kill(p)
      PROVE  [Published!Next]_Log
  <2>1. Kills /\ pc'[p] = "idle" /\ index' = index
    BY <1>3 DEF Kill, Stop, Goto, HistoryInv, TypeOK
  <2>2. Log' = index
    BY <2>1, LogIsOfWriter DEF LogOf
  <2>3. CASE pc[p] = "index"
    BY <2>1, <2>2, <2>3 DEF LogInv, LogWriterOK, Published!Next, Published!Lose
  <2>4. CASE pc[p] # "index"
    BY <2>2, <2>4, LogIsOfWriter DEF LogOf
  <2> QED
    BY <2>3, <2>4
<1>4. ASSUME NEW p \in Processes, pc[p] # "index", pc'[p] # "index",
             index' = index
      PROVE  Log' = Log
  BY <1>4, LogIsOfWriter DEF LogOf
<1>5. ASSUME NEW p \in Processes, NEW extras \in SUBSET Extras,
             Analyse(p, extras)
      PROVE  Log' = Log
  <2>1. PICK orders : Order(p, orders, {})
    BY <1>5 DEF Analyse
  <2>2. pc[p] = "idle" /\ pc'[p] # "index" /\ index' = index
    BY <1>5, <2>1 DEF Analyse, Issue, Order, Goto, HistoryInv, TypeOK
  <2> QED
    BY <2>2, <1>4
<1>6. ASSUME NEW p \in Processes, Finalize(p)
      PROVE  Log' = Log
  <2>1. PICK orders : Order(p, orders, HeadDeps)
    BY <1>6 DEF Finalize
  <2>2. pc[p] = "idle" /\ pc'[p] # "index" /\ index' = index
    BY <1>6, <2>1 DEF Finalize, Issue, Order, Goto, HistoryInv, TypeOK
  <2> QED
    BY <2>2, <1>4
<1>7. ASSUME NEW p \in Processes,
             \/ ChooseName(p) \/ CheckName(p) \/ CreateFile(p)
             \/ DumpFile(p) \/ LoadManifest(p)
      PROVE  Log' = Log
  <2>1. pc[p] # "index" /\ pc'[p] # "index" /\ index' = index
    BY <1>7 DEF ChooseName, CheckName, CreateFile, DumpFile, LoadManifest,
       Stop, Goto, HistoryInv, TypeOK
  <2> QED
    BY <2>1, <1>4
<1>8. CASE Edit \/ UNCHANGED vars
  BY <1>8 DEF Edit, vars, process, Log
<1> QED
  BY <1>1, <1>2, <1>3, <1>5, <1>6, <1>7, <1>8 DEF Next, WriteSegment

\* With a single writer the manifest implements the log of segments: it grows
\* by entries that are newer than those before them and depend on them, and
\* if a kill loses it, it loses all.
THEOREM ManifestImplementsLog ==
    ASSUME SingleWriter
    PROVE  Spec => ImplementsSegmentLog
<1>1. Init => LogInv /\ Published!Init
  BY LogInit DEF Init, Published!Init, Log
<1>2. HistoryInv /\ HistoryInv' /\ LogInv /\ [Next]_vars => LogInv'
  <2>1. CASE Next
    BY <2>1, LogStep DEF LogInv
  <2>2. CASE UNCHANGED vars
    BY <2>2 DEF vars, process, LogInv, LogWriterOK, LogOf, NamesOf
  <2> QED
    BY <2>1, <2>2
<1>3. HistoryInv /\ LogInv /\ [Next]_vars => [Published!Next]_Log
  BY StepImplements
<1> QED
  BY <1>1, <1>2, <1>3, History, PTL
     DEF Spec, ImplementsSegmentLog, Published!Spec

-----------------------------------------------------------------------------
(* Any number of writers. Files are created and emptied, never removed, so *)
(* that what a writer has seen stays there whatever the others do; what    *)
(* the files hold, and which number is free, does not.                     *)

\* The entries of l have files, and they and what they depend on were listed.
Listed(l) ==
    \A k \in 1..Len(l) :
        /\ l[k].name \in DOMAIN files
        /\ l[k].name \in published
        /\ l[k].deps \subseteq published

SharedOK(p) ==
    /\ pc[p] # "idle" => todo[p] # <<>>
    /\ deps[p] \subseteq published
    /\ pc[p] \in {"dump", "load", "truncate", "index"} =>
          name[p] \in DOMAIN files
    /\ Listed(loaded[p])

SharedInv ==
    /\ TypeOK
    /\ HasNewest
    /\ Listed(index)
    /\ \A p \in Processes : SharedOK(p)

\* Nothing was listed yet.
LEMMA SharedInit == Init => SharedInv
<1> SUFFICES ASSUME Init PROVE SharedInv
  OBVIOUS
<1>1. TypeOK /\ HasNewest
  BY HistoryInit DEF HistoryInv
<1>2. Listed(index)
  BY DEF Init, Listed
<1>3. ASSUME NEW p \in Processes PROVE SharedOK(p)
  BY DEF Init, SharedOK, Listed
<1> QED
  BY <1>1, <1>2, <1>3 DEF SharedInv

\* What the steps of each kind do to the files, the manifest and the list of
\* what was published.
LEMMA SharedFiles ==
    ASSUME TypeOK, NEW p \in Processes,
           \/ \E extras \in SUBSET Extras : Analyse(p, extras)
           \/ Finalize(p) \/ WriteSegment(p) \/ Kill(p)
    PROVE  /\ DOMAIN files' \in {DOMAIN files, DOMAIN files \union {name[p]}}
           /\ \/ index' \in {index, <<>>} /\ published' = published
              \/ DumpManifest(p)
           /\ \A q \in Processes \ {p} :
                 /\ pc'[q] = pc[q] /\ todo'[q] = todo[q]
                 /\ deps'[q] = deps[q] /\ name'[q] = name[q]
                 /\ loaded'[q] = loaded[q]
<1>1. CASE \E extras \in SUBSET Extras : Analyse(p, extras)
  <2>1. PICK orders : Order(p, orders, {})
    BY <1>1 DEF Analyse
  <2> QED
    BY <1>1, <2>1 DEF Analyse, Order, Goto, TypeOK
<1>2. CASE Finalize(p)
  <2>1. PICK orders : Order(p, orders, HeadDeps)
    BY <1>2 DEF Finalize
  <2> QED
    BY <1>2, <2>1 DEF Finalize, Order, Goto, TypeOK
<1>3. CASE ChooseName(p) \/ LoadManifest(p) \/ TruncateManifest(p)
  BY <1>3 DEF ChooseName, LoadManifest, TruncateManifest, Goto, TypeOK
<1>4. CASE CheckName(p) \/ Kill(p)
  BY <1>4 DEF CheckName, Kill, Stop, Goto, TypeOK
<1>5. CASE CreateFile(p) \/ DumpFile(p)
  BY <1>5 DEF CreateFile, DumpFile, WriteFile, Goto, TypeOK
<1>6. CASE DumpManifest(p)
  BY <1>6 DEF DumpManifest, Goto, TypeOK
<1> QED
  BY <1>1, <1>2, <1>3, <1>4, <1>5, <1>6 DEF WriteSegment

\* A new file keeps a highest number, even one that is not new.
LEMMA SharedNewest ==
    ASSUME TypeOK, HasNewest, NEW p \in Processes,
           DOMAIN files' \in {DOMAIN files, DOMAIN files \union {name[p]}}
    PROVE  HasNewest'
<1>1. CASE DOMAIN files' = DOMAIN files
  BY <1>1 DEF HasNewest, Numbers
<1>2. CASE DOMAIN files' = DOMAIN files \union {name[p]}
  <2> DEFINE n == name[p].num
  <2>1. n \in Nat /\ Numbers \subseteq Nat
    BY DEF TypeOK, Numbers, Names
  <2>2. Numbers' = Numbers \union {n}
    BY <1>2 DEF Numbers
  <2> HIDE DEF n
  <2>3. PICK k \in Numbers \union {0} : \A m \in Numbers : m <= k
    BY DEF HasNewest
  <2>4. CASE n <= k
    <3>1. \A m \in Numbers' : m <= k
      BY <2>2, <2>3, <2>4
    <3> QED
      BY <2>2, <3>1 DEF HasNewest
  <2>5. CASE ~(n <= k)
    <3>1. k \in Nat
      BY <2>1
    <3>2. \A m \in Numbers : m <= n
      BY <2>1, <2>3, <2>5, <3>1
    <3>3. \A m \in Numbers' : m <= n
      BY <2>1, <2>2, <3>2
    <3> QED
      BY <2>2, <3>3 DEF HasNewest
  <2> QED
    BY <2>4, <2>5
<1> QED
  BY <1>1, <1>2

\* The dependencies that finalize records were listed.
LEMMA HeadListed ==
    ASSUME TypeOK, Listed(index)
    PROVE  HeadDeps \subseteq published
<1>1. CASE index = <<>>
  BY <1>1 DEF HeadDeps
<1>2. CASE index # <<>>
  <2>1. Len(index) \in 1..Len(index)
    BY <1>2 DEF TypeOK
  <2> QED
    BY <1>2, <2>1 DEF Listed, HeadDeps, HeadName
<1> QED
  BY <1>1, <1>2

\* The manifest that a writer dumps lists what exists, even when another
\* writer has changed it since it was loaded.
LEMMA DumpListed ==
    ASSUME TypeOK, NEW p \in Processes, SharedOK(p), DumpManifest(p)
    PROVE  /\ Listed(index)'
           /\ SharedOK(p)'
<1>1. /\ pc[p] = "index" /\ files' = files
      /\ published' = published \union {name[p]}
      /\ index' = Append(loaded[p], Entry(p))
      /\ pc'[p] \in {"idle", "choose"}
      /\ pc'[p] # "idle" => Tail(todo[p]) # <<>>
      /\ todo'[p] = Tail(todo[p]) /\ deps'[p] = {name[p]}
      /\ loaded'[p] = <<>>
  BY DEF DumpManifest, Goto, TypeOK
<1>2. /\ name[p] \in DOMAIN files /\ deps[p] \subseteq published
      /\ Listed(loaded[p]) /\ loaded[p] \in Seq(Entries)
  BY <1>1 DEF SharedOK, TypeOK
<1>3. ASSUME NEW k \in 1..Len(index')
      PROVE  /\ index'[k].name \in DOMAIN files'
             /\ index'[k].name \in published'
             /\ index'[k].deps \subseteq published'
  <2>1. /\ Len(index') = Len(loaded[p]) + 1
        /\ index'[Len(loaded[p]) + 1] = Entry(p)
        /\ \A j \in 1..Len(loaded[p]) : index'[j] = loaded[p][j]
    BY <1>1, <1>2
  <2>2. CASE k = Len(loaded[p]) + 1
    BY <1>1, <1>2, <2>1, <2>2 DEF Entry
  <2>3. CASE k \in 1..Len(loaded[p])
    BY <1>1, <1>2, <2>1, <2>3 DEF Listed
  <2>4. Len(loaded[p]) \in Nat
    BY <1>2
  <2> QED
    BY <2>1, <2>2, <2>3, <2>4
<1>4. Listed(index)'
  BY <1>3 DEF Listed
<1>5. SharedOK(p)'
  BY <1>1 DEF SharedOK, Listed
<1> QED
  BY <1>4, <1>5

\* After its own step a writer may rely on what it has seen.
LEMMA SharedWriter ==
    ASSUME SharedInv, NEW p \in Processes,
           \/ \E extras \in SUBSET Extras : Analyse(p, extras)
           \/ Finalize(p) \/ WriteSegment(p) \/ Kill(p)
    PROVE  SharedOK(p)'
<1>0. TypeOK /\ Listed(index) /\ SharedOK(p)
  BY DEF SharedInv
<1>1. ASSUME NEW first, first \subseteq published,
             \E orders : Order(p, orders, first),
             UNCHANGED <<files, published, loaded>>
      PROVE  SharedOK(p)'
  <2>1. PICK orders : Order(p, orders, first)
    BY <1>1
  <2>2. /\ todo'[p] = orders /\ deps'[p] = first
        /\ pc'[p] = IF orders = <<>> THEN "idle" ELSE "choose"
    BY <1>0, <2>1 DEF Order, Goto, TypeOK
  <2> QED
    BY <1>0, <1>1, <2>2 DEF SharedOK, Listed
<1>2. CASE \E extras \in SUBSET Extras : Analyse(p, extras)
  <2>1. /\ \E orders : Order(p, orders, {})
        /\ UNCHANGED <<files, published, loaded>>
    BY <1>2 DEF Analyse
  <2> QED
    BY <1>1, <2>1
<1>3. CASE Finalize(p)
  <2>1. /\ \E orders : Order(p, orders, HeadDeps)
        /\ UNCHANGED <<files, published, loaded>>
    BY <1>3 DEF Finalize
  <2> QED
    BY <1>0, <1>1, <2>1, HeadListed
<1>4. CASE Stop(p) /\ UNCHANGED <<files, published>>
  <2>1. pc'[p] = "idle" /\ deps'[p] = {} /\ loaded'[p] = <<>>
    BY <1>0, <1>4 DEF Stop, Goto, TypeOK
  <2> QED
    BY <2>1 DEF SharedOK, Listed
<1>5. CASE CheckName(p) \/ Kill(p)
  <2>1. CASE Stop(p)
    BY <1>4, <1>5, <2>1 DEF CheckName, Kill
  <2>2. CASE /\ Goto(p, "create") /\ pc[p] # "idle"
             /\ UNCHANGED <<todo, deps, loaded, files, published>>
    BY <1>0, <2>2 DEF SharedOK, Listed, Goto, TypeOK
  <2> QED
    BY <1>5, <2>1, <2>2 DEF CheckName, Kill
<1>6. CASE ChooseName(p)
  BY <1>0, <1>6 DEF ChooseName, SharedOK, Listed, Goto, TypeOK
<1>7. CASE CreateFile(p) \/ DumpFile(p)
  <2>1. /\ pc[p] # "idle" /\ pc'[p] \in {"dump", "load"}
        /\ DOMAIN files' = DOMAIN files \union {name[p]}
        /\ UNCHANGED <<published, todo, deps, name, loaded>>
    BY <1>0, <1>7 DEF CreateFile, DumpFile, WriteFile, Goto, TypeOK
  <2> QED
    BY <1>0, <2>1 DEF SharedOK, Listed
<1>8. CASE LoadManifest(p)
  <2>1. /\ pc[p] = "load" /\ pc'[p] = "truncate" /\ loaded'[p] = index
        /\ UNCHANGED <<files, published, todo, deps, name>>
    BY <1>0, <1>8 DEF LoadManifest, Goto, TypeOK
  <2> QED
    BY <1>0, <2>1 DEF SharedOK, Listed
<1>9. CASE TruncateManifest(p)
  <2>1. /\ pc[p] = "truncate" /\ pc'[p] = "index"
        /\ UNCHANGED <<files, published, todo, deps, name, loaded>>
    BY <1>0, <1>9 DEF TruncateManifest, Goto, TypeOK
  <2> QED
    BY <1>0, <2>1 DEF SharedOK, Listed
<1>10. CASE DumpManifest(p)
  BY <1>0, <1>10, DumpListed
<1> QED
  BY <1>2, <1>3, <1>5, <1>6, <1>7, <1>8, <1>9, <1>10 DEF WriteSegment

\* SharedInv is inductive for any number of writers.
LEMMA SharedStep == SharedInv /\ [Next]_vars => SharedInv'
<1> SUFFICES ASSUME SharedInv, [Next]_vars PROVE SharedInv'
  OBVIOUS
<1>1. CASE UNCHANGED vars
  BY <1>1 DEF vars, process, SharedInv, TypeOK, HasNewest, Numbers, Listed,
     SharedOK
<1>2. CASE Edit
  <2>1. TypeOK'
    BY <1>2, HistoryType DEF SharedInv, SharedOK, HasOrders, Next
  <2>2. UNCHANGED <<files, index, published, pc, todo, deps, name, loaded>>
    BY <1>2 DEF Edit, process
  <2> QED
    BY <2>1, <2>2 DEF SharedInv, HasNewest, Numbers, Listed, SharedOK
<1>3. ASSUME NEW p \in Processes,
             \/ \E extras \in SUBSET Extras : Analyse(p, extras)
             \/ Finalize(p) \/ WriteSegment(p) \/ Kill(p)
      PROVE  SharedInv'
  <2>0. TypeOK /\ HasNewest /\ HasOrders /\ Next
    BY <1>3 DEF SharedInv, SharedOK, HasOrders, Next
  <2>1. TypeOK'
    BY <2>0, HistoryType
  <2>2. /\ DOMAIN files' \in {DOMAIN files, DOMAIN files \union {name[p]}}
        /\ \/ index' \in {index, <<>>} /\ published' = published
           \/ DumpManifest(p)
        /\ \A q \in Processes \ {p} :
              /\ pc'[q] = pc[q] /\ todo'[q] = todo[q]
              /\ deps'[q] = deps[q] /\ name'[q] = name[q]
              /\ loaded'[q] = loaded[q]
    BY <1>3, <2>0, SharedFiles
  <2>3. HasNewest'
    BY <2>0, <2>2, SharedNewest
  <2>4. /\ DOMAIN files \subseteq DOMAIN files'
        /\ published \subseteq published'
    BY <2>2 DEF DumpManifest
  <2>5. Listed(index)'
    <3>1. CASE index' = index
      BY <2>4, <3>1 DEF SharedInv, Listed
    <3>2. CASE index' = <<>>
      BY <3>2 DEF Listed
    <3>3. CASE DumpManifest(p)
      BY <2>0, <3>3, DumpListed DEF SharedInv
    <3> QED
      BY <2>2, <3>1, <3>2, <3>3
  <2>6. SharedOK(p)'
    BY <1>3, SharedWriter
  <2>7. ASSUME NEW q \in Processes \ {p} PROVE SharedOK(q)'
    <3>1. SharedOK(q)
      BY DEF SharedInv
    <3>2. Listed(loaded[q])'
      BY <2>2, <2>4, <3>1 DEF SharedOK, Listed
    <3> QED
      BY <2>2, <2>4, <3>1, <3>2 DEF SharedOK
  <2> QED
    BY <2>1, <2>3, <2>5, <2>6, <2>7 DEF SharedInv
<1> QED
  BY <1>1, <1>2, <1>3 DEF Next

\* SharedInv holds in every reachable state, for any number of writers.
THEOREM Shared == Spec => []SharedInv
BY SharedInit, SharedStep, PTL DEF Spec

\* Files, manifest and the memory of any number of writers keep their types.
THEOREM TypeCorrect == Spec => []TypeOK
<1>1. SharedInv => TypeOK
  BY DEF SharedInv
<1> QED
  BY <1>1, Shared, PTL

\* However many writers interleave and are killed, a listed segment has a file
\* and depends only on segments that were listed.
THEOREM ListedExist == Spec => []ListedSegmentsExist
<1>1. SharedInv => ListedSegmentsExist
  BY DEF SharedInv, Listed, ListedSegmentsExist
<1> QED
  BY <1>1, Shared, PTL
=============================================================================
