---------------------------- MODULE PluginsProofs ----------------------------
(***************************************************************************)
(* Theorems about Plugins, for any number of processes, names, texts and   *)
(* runs. A save() writes by key, and the key may be gone, or back: that a  *)
(* page has one value of a name rests on whoever holds a key holding the   *)
(* name that goes with it, and on all holders of a key agreeing.           *)
(***************************************************************************)
EXTENDS Plugins, TLAPS

Looping == {"upsert", "insert", "again", "save"}

\* What a run stores was returned by its plug-ins.
Wanted == \A w \in Procs :
    /\ pc[w] \in Looping => todo[w] \subseteq DOMAIN want[w]
    /\ pc[w] \in {"insert", "again", "save"} => cur[w].name \in DOMAIN want[w]

\* A key that is about to be saved was handed out, goes with its name, and all
\* who hold it hold that name.
KeyKnown == \A w \in Procs : pc[w] = "save" =>
    /\ cur[w].pk \in 1 .. (nextPk - 1)
    /\ cur[w].pk \in DOMAIN value => value[cur[w].pk].name = cur[w].name
    /\ \A v \in Procs : pc[v] = "save" /\ cur[v].pk = cur[w].pk => cur[v].name = cur[w].name

TypeInv == TypeOK /\ Wanted /\ KeyKnown

-----------------------------------------------------------------------------
(* Types *)

ValueRow == [name : Names, text : Texts \cup {Blank}]

\* The parts of TypeInv about the table.
TableOK ==
    /\ alive \in BOOLEAN
    /\ DOMAIN value \subseteq 1 .. (nextPk - 1)
    /\ \A k \in DOMAIN value : value[k] \in ValueRow
    /\ nextPk \in 1 .. (MaxPk + 1)

\* The parts about the processes.
ProcOK ==
    /\ runs \in 0 .. MaxRuns
    /\ pc \in [Procs -> {"idle", "names", "delete"} \cup Looping]
    /\ want \in [Procs -> Returned]
    /\ todo \in [Procs -> SUBSET Names]
    /\ cur \in [Procs -> [pk : Nat, name : Names]]

HistoryOK == quiet \in [Procs -> BOOLEAN] /\ cut \subseteq Nat

LEMMA TypeParts == TypeInv <=> TableOK /\ ProcOK /\ HistoryOK /\ Wanted /\ KeyKnown
BY DEF TypeInv, TypeOK, TableOK, ProcOK, HistoryOK, ValueRow, Looping

\* Nothing is something plug-ins may return, and NoValue something to hold.
LEMMA NullsOK == Nothing \in Returned /\ DOMAIN Nothing = {} /\ NoValue \in [pk : Nat, name : Names]
<1>1. Nothing \in [{} -> Texts]
  BY DEF Nothing
<1>2. Nothing \in Returned
  BY <1>1 DEF Returned
<1>3. NoValue \in [pk : Nat, name : Names]
  BY PluginsAssumption DEF NoValue
<1> QED
  BY <1>2, <1>3 DEF Nothing

\* What the plug-ins return has names of Names and texts of Texts.
LEMMA ReturnedOK == \A r \in Returned : /\ DOMAIN r \subseteq Names
                                        /\ \A n \in DOMAIN r : r[n] \in Texts
BY DEF Returned

\* Every statement of w leaves the processes well typed.
LEMMA ProcStep ==
    ASSUME ProcOK, Wanted, TableOK, NEW w \in Procs, Step(w)
    PROVE  ProcOK' /\ Wanted'
<1> USE DEF Go
<1>0. ASSUME Leave(w), runs' = runs PROVE ProcOK' /\ Wanted'
  BY <1>0, NullsOK DEF Leave, ProcOK, Wanted, Looping
<1>1. ASSUME NEW r \in Returned, RunPlugins(w, r) PROVE ProcOK' /\ Wanted'
  BY <1>1, PluginsAssumption DEF RunPlugins, ProcOK, Wanted, Looping
<1>2. CASE ReadNames(w)
  <2>1. Stored \subseteq Names
    BY DEF Stored, TableOK, ValueRow
  <2>2. DOMAIN want[w] \subseteq Names
    BY ReturnedOK DEF ProcOK
  <2> QED
    BY <1>2, <2>1, <2>2 DEF ReadNames, ProcOK, Wanted, Looping
<1>3. CASE DeleteGone(w)
  <2>1. DOMAIN want[w] \subseteq Names
    BY ReturnedOK DEF ProcOK
  <2> QED
    BY <1>3, <2>1 DEF DeleteGone, ProcOK, Wanted, Looping
<1>4. ASSUME NEW n \in Names, FindValue(w, n) PROVE ProcOK' /\ Wanted'
  <2>1. \A k \in Rows(n) : k \in Nat
    BY DEF Rows, TableOK
  <2>2. PICK k \in Nat, l \in {"insert", "save"} :
          /\ cur' = [cur EXCEPT ![w] = [pk |-> k, name |-> n]]
          /\ pc' = [pc EXCEPT ![w] = l]
    BY <1>4, <2>1 DEF FindValue
  <2>3. /\ pc[w] = "upsert" /\ todo' = [todo EXCEPT ![w] = @ \ {n}]
        /\ runs' = runs /\ want' = want
    BY <1>4 DEF FindValue
  <2>4. PICK row \in [pk : Nat, name : Names] : row = [pk |-> k, name |-> n]
    OBVIOUS
  <2>5. cur' \in [Procs -> [pk : Nat, name : Names]]
    BY <2>2, <2>4 DEF ProcOK
  <2>6. ProcOK'
    BY <2>2, <2>3, <2>5 DEF ProcOK, Looping
  <2>7. /\ cur'[w].name = n /\ todo'[w] \subseteq todo[w] /\ n \in todo[w]
        /\ \A v \in Procs \ {w} : cur'[v] = cur[v] /\ todo'[v] = todo[v] /\ pc'[v] = pc[v]
    BY <1>4, <2>2, <2>3 DEF FindValue, ProcOK
  <2>8. Wanted'
    BY <2>3, <2>7 DEF Wanted, Looping
  <2> QED
    BY <2>6, <2>8
<1>5. CASE InsertValue(w)
  <2>1. /\ pc[w] = "insert" /\ nextPk \in Nat /\ runs' = runs /\ want' = want /\ todo' = todo
        /\ \/ pc' = [pc EXCEPT ![w] = "again"] /\ cur' = cur
           \/ pc' = [pc EXCEPT ![w] = "save"] /\ cur' = [cur EXCEPT ![w].pk = nextPk]
    BY <1>5 DEF InsertValue, TableOK
  <2>2. cur' \in [Procs -> [pk : Nat, name : Names]] /\ \A v \in Procs : cur'[v].name = cur[v].name
    BY <2>1 DEF ProcOK
  <2>3. ProcOK'
    BY <2>1, <2>2 DEF ProcOK, Looping
  <2>4. /\ pc'[w] \in {"again", "save"}
        /\ \A v \in Procs \ {w} : pc'[v] = pc[v]
    BY <2>1 DEF ProcOK
  <2>5. Wanted'
    BY <2>1, <2>2, <2>4 DEF Wanted, Looping
  <2> QED
    BY <2>3, <2>5
<1>6. CASE FindAgain(w)
  <2>1. CASE Leave(w)
    BY <1>6, <2>1, <1>0 DEF FindAgain
  <2>2. CASE \E k \in Rows(cur[w].name) :
               /\ cur' = [cur EXCEPT ![w].pk = k]
               /\ pc' = [pc EXCEPT ![w] = "save"]
               /\ UNCHANGED <<want, todo>>
    BY <1>6, <2>2 DEF FindAgain, Rows, TableOK, ProcOK, Wanted, Looping
  <2> QED
    BY <1>6, <2>1, <2>2 DEF FindAgain
<1>7. CASE SaveValue(w)
  <2>1. CASE Leave(w)
    BY <1>7, <2>1, <1>0 DEF SaveValue
  <2>2. CASE pc' = [pc EXCEPT ![w] = "upsert"] /\ UNCHANGED <<want, todo, cur>>
    BY <1>7, <2>2 DEF SaveValue, ProcOK, Wanted, Looping
  <2> QED
    BY <1>7, <2>1, <2>2 DEF SaveValue
<1>8. CASE EndRun(w)
  BY <1>8, <1>0 DEF EndRun
<1>9. CASE Abort(w)
  BY <1>9, <1>0 DEF Abort
<1> QED
  BY <1>1, <1>2, <1>3, <1>4, <1>5, <1>6, <1>7, <1>8, <1>9 DEF Step

\* What a statement of w does to the table.
ValueStays == value' = value /\ nextPk' \in {nextPk, nextPk + 1}
ValueGoes == (\E K \in SUBSET DOMAIN value : value' = Restrict(value, K)) /\ nextPk' = nextPk
ValueAdded(w) ==
    /\ pc[w] = "insert"
    /\ ~ InsertFails(cur[w].name)
    /\ nextPk <= MaxPk
    /\ value' = Put(nextPk, cur[w].name, Blank)
    /\ nextPk' = nextPk + 1
    /\ pc'[w] = "save" /\ cur'[w] = [cur[w] EXCEPT !.pk = nextPk]
ValueSaved(w) ==
    /\ pc[w] = "save"
    /\ ~ SaveFails(cur[w].pk, cur[w].name)
    /\ value' = Put(cur[w].pk, cur[w].name, want[w][cur[w].name])
    /\ nextPk' = nextPk
    /\ pc'[w] = "upsert"

LEMMA TableStep ==
    ASSUME TypeInv, NEW w \in Procs, Step(w)
    PROVE  /\ ValueStays \/ ValueGoes \/ ValueAdded(w) \/ ValueSaved(w)
           /\ nextPk' \in 1 .. (MaxPk + 1)
           /\ alive' = alive
<1>0. ProcOK /\ TableOK /\ MaxPk \in Nat
  BY TypeParts, PluginsAssumption
<1> USE DEF ValueStays, ValueGoes, ValueAdded, ValueSaved, Go, Leave, TableOK
<1>1. CASE \E r \in Returned : RunPlugins(w, r)
  BY <1>0, <1>1 DEF RunPlugins
<1>2. CASE ReadNames(w)
  BY <1>0, <1>2 DEF ReadNames
<1>3. CASE DeleteGone(w)
  BY <1>0, <1>3 DEF DeleteGone
<1>4. CASE \E n \in Names : FindValue(w, n)
  BY <1>0, <1>4 DEF FindValue
<1>5. CASE InsertValue(w)
  BY <1>0, <1>5 DEF InsertValue, ProcOK
<1>6. CASE FindAgain(w)
  BY <1>0, <1>6 DEF FindAgain
<1>7. CASE SaveValue(w)
  BY <1>0, <1>7 DEF SaveValue, ProcOK
<1>8. CASE EndRun(w) \/ Abort(w)
  BY <1>0, <1>8 DEF EndRun, Abort
<1> QED
  BY <1>1, <1>2, <1>3, <1>4, <1>5, <1>6, <1>7, <1>8 DEF Step

LEMMA TablesOK ==
    ASSUME TypeInv, NEW w \in Procs, Step(w)
    PROVE  TableOK'
<1>0. ProcOK /\ TableOK /\ Wanted /\ KeyKnown /\ nextPk' \in 1 .. (MaxPk + 1) /\ alive' = alive
  BY TypeParts, TableStep
<1> USE DEF TableOK, ValueRow
<1>1. CASE ValueStays
  BY <1>0, <1>1 DEF ValueStays
<1>2. CASE ValueGoes
  BY <1>0, <1>2 DEF ValueGoes, Restrict
<1>3. CASE ValueAdded(w)
  BY <1>0, <1>3 DEF ValueAdded, Put, ProcOK
<1>4. CASE ValueSaved(w)
  <2>1. want[w] \in Returned /\ cur[w].name \in DOMAIN want[w] /\ cur[w].name \in Names
    BY <1>0, <1>4 DEF ValueSaved, ProcOK, Wanted
  <2>2. want[w][cur[w].name] \in Texts
    BY <2>1, ReturnedOK
  <2> QED
    BY <1>0, <1>4, <2>1, <2>2 DEF ValueSaved, Put, KeyKnown
<1> QED
  BY <1>1, <1>2, <1>3, <1>4, TableStep
-----------------------------------------------------------------------------
(* Keys *)

\* A step of w touches what w holds, and nothing of the others. If w is about
\* to save afterwards, it has just found or made the row, or it was before.
LEMMA HeldStep ==
    ASSUME TypeInv, NEW w \in Procs, Step(w)
    PROVE  /\ \A v \in Procs \ {w} : pc'[v] = pc[v] /\ cur'[v] = cur[v]
           /\ pc'[w] = "save" =>
                \/ /\ value' = value
                   /\ cur'[w].pk \in DOMAIN value
                   /\ value[cur'[w].pk].name = cur'[w].name
                \/ ValueAdded(w)
<1>0. ProcOK
  BY TypeParts
<1> USE DEF ProcOK, Go, Leave
<1>1. CASE \E r \in Returned : RunPlugins(w, r)
  BY <1>0, <1>1 DEF RunPlugins
<1>2. CASE ReadNames(w)
  BY <1>0, <1>2 DEF ReadNames
<1>3. CASE DeleteGone(w)
  BY <1>0, <1>3 DEF DeleteGone
<1>4. CASE \E n \in Names : FindValue(w, n)
  BY <1>0, <1>4 DEF FindValue, Rows
<1>5. CASE InsertValue(w)
  BY <1>0, <1>5 DEF InsertValue, ValueAdded
<1>6. CASE FindAgain(w)
  BY <1>0, <1>6 DEF FindAgain, Rows
<1>7. CASE SaveValue(w)
  BY <1>0, <1>7 DEF SaveValue
<1>8. CASE EndRun(w) \/ Abort(w)
  BY <1>0, <1>8 DEF EndRun, Abort
<1> QED
  BY <1>1, <1>2, <1>3, <1>4, <1>5, <1>6, <1>7, <1>8 DEF Step

\* Rows keep their names: by what a step does to the table.
LEMMA NamesKept ==
    ASSUME TypeInv, NEW w \in Procs, Step(w)
    PROVE  /\ nextPk' >= nextPk
           /\ \A k \in DOMAIN value' :
                \/ k \in DOMAIN value /\ value'[k].name = value[k].name
                \/ ValueAdded(w) /\ k = nextPk
                \/ ValueSaved(w) /\ k = cur[w].pk /\ value'[k].name = cur[w].name
<1>0. TableOK
  BY TypeParts
<1>1. CASE ValueStays
  BY <1>0, <1>1 DEF ValueStays, TableOK
<1>2. CASE ValueGoes
  BY <1>0, <1>2 DEF ValueGoes, Restrict, TableOK
<1>3. CASE ValueAdded(w)
  BY <1>0, <1>3 DEF ValueAdded, Put, TableOK
<1>4. CASE ValueSaved(w)
  BY <1>0, <1>4 DEF ValueSaved, Put, TableOK
<1> QED
  BY <1>1, <1>2, <1>3, <1>4, TableStep

LEMMA KeyStep ==
    ASSUME TypeInv, NEW w \in Procs, Step(w)
    PROVE  KeyKnown'
<1>0. /\ TableOK /\ ProcOK /\ KeyKnown
      /\ nextPk' \in 1 .. (MaxPk + 1) /\ nextPk' >= nextPk
  BY TypeParts, TableStep, NamesKept
\* What another process holds is still known.
<1>1. ASSUME NEW v \in Procs \ {w}, pc'[v] = "save"
      PROVE  /\ pc[v] = "save" /\ cur'[v] = cur[v]
             /\ cur'[v].pk \in 1 .. (nextPk - 1) /\ cur'[v].pk \in 1 .. (nextPk' - 1)
             /\ cur'[v].pk \in DOMAIN value' => value'[cur'[v].pk].name = cur'[v].name
  <2>1. pc[v] = "save" /\ cur'[v] = cur[v]
    BY <1>1, HeldStep
  <2>2. /\ cur[v].pk \in 1 .. (nextPk - 1)
        /\ cur[v].pk \in DOMAIN value => value[cur[v].pk].name = cur[v].name
        /\ pc[w] = "save" /\ cur[w].pk = cur[v].pk => cur[w].name = cur[v].name
    BY <1>0, <2>1 DEF KeyKnown
  <2>3. nextPk \in Nat /\ nextPk' \in Nat /\ nextPk' >= nextPk
    BY <1>0, PluginsAssumption DEF TableOK
  <2>4. cur[v].pk # nextPk /\ cur[v].pk \in 1 .. (nextPk' - 1)
    BY <2>2, <2>3
  <2>5. ASSUME cur[v].pk \in DOMAIN value' PROVE value'[cur[v].pk].name = cur[v].name
    <3>1. ValueSaved(w) => pc[w] = "save"
      BY DEF ValueSaved
    <3> QED
      BY <2>2, <2>4, <2>5, <3>1, NamesKept
  <2> QED
    BY <2>1, <2>2, <2>4, <2>5
\* What w holds is known, and a key that others hold has one name.
<1>2. ASSUME pc'[w] = "save"
      PROVE  /\ cur'[w].pk \in 1 .. (nextPk' - 1)
             /\ cur'[w].pk \in DOMAIN value' => value'[cur'[w].pk].name = cur'[w].name
             /\ \A v \in Procs \ {w} :
                  pc'[v] = "save" /\ cur'[v].pk = cur'[w].pk => cur'[v].name = cur'[w].name
  <2>0. nextPk \in Nat /\ nextPk' \in Nat /\ nextPk' >= nextPk
    BY <1>0, PluginsAssumption DEF TableOK
  <2>1. CASE ValueAdded(w)
    <3>1. cur[w] \in [pk : Nat, name : Names]
      BY <1>0 DEF ProcOK
    <3>2. cur'[w].pk = nextPk /\ cur'[w].name = cur[w].name /\ nextPk' = nextPk + 1
      BY <2>1, <3>1 DEF ValueAdded
    <3>3. value'[nextPk].name = cur[w].name
      BY <2>1 DEF ValueAdded, Put
    <3> QED
      BY <1>0, <1>1, <2>0, <3>2, <3>3 DEF TableOK
  <2>2. CASE /\ value' = value /\ cur'[w].pk \in DOMAIN value
             /\ value[cur'[w].pk].name = cur'[w].name
    <3>1. cur'[w].pk \in 1 .. (nextPk' - 1)
      BY <1>0, <2>0, <2>2 DEF TableOK
    <3> QED
      BY <1>1, <2>2, <3>1
  <2> QED
    BY <1>2, <2>1, <2>2, HeldStep
<1>3. ASSUME NEW u \in Procs, NEW v \in Procs, pc'[u] = "save", pc'[v] = "save",
             cur'[u].pk = cur'[v].pk
      PROVE  cur'[v].name = cur'[u].name
  <2>1. CASE u = w \/ v = w
    BY <1>2, <1>3, <2>1
  <2>2. CASE u # w /\ v # w
    BY <1>0, <1>1, <1>3, <2>2 DEF KeyKnown
  <2> QED
    BY <2>1, <2>2
<1> QED
  BY <1>1, <1>2, <1>3 DEF KeyKnown

LEMMA TypeStep == TypeInv /\ [Next]_vars => TypeInv'
<1> SUFFICES ASSUME TypeInv, [Next]_vars PROVE TypeInv'
  OBVIOUS
<1>0. TableOK /\ ProcOK /\ HistoryOK /\ Wanted /\ KeyKnown
  BY TypeParts
<1>1. ASSUME NEW w \in Procs, Step(w), Observe(w) PROVE TypeInv'
  <2>1. TableOK' /\ KeyKnown'
    BY <1>1, TablesOK, KeyStep
  <2>2. ProcOK' /\ Wanted'
    BY <1>0, <1>1, ProcStep
  <2>3. HistoryOK'
    BY <1>0, <1>1 DEF Observe, HistoryOK, ProcOK
  <2> QED
    BY <2>1, <2>2, <2>3 DEF TypeInv, TypeOK, TableOK, ProcOK, HistoryOK, ValueRow, Looping
<1>2. CASE DeletePage
  <2>1. DOMAIN value' = {} /\ alive' = FALSE
    BY <1>2, NullsOK DEF DeletePage
  <2>2. TableOK' /\ KeyKnown' /\ HistoryOK' /\ ProcOK' /\ Wanted'
    BY <1>0, <1>2, <2>1 DEF DeletePage, TableOK, KeyKnown, HistoryOK, ProcOK, Wanted
  <2> QED
    BY <2>2 DEF TypeInv, TypeOK, TableOK, ProcOK, HistoryOK, ValueRow, Looping
<1>3. CASE SavePage
  BY <1>0, <1>3 DEF SavePage, TypeInv, TypeOK, Wanted, KeyKnown
<1>4. CASE UNCHANGED vars
  BY <1>0, <1>4 DEF vars, TypeInv, TypeOK, Wanted, KeyKnown
<1> QED
  BY <1>1, <1>2, <1>3, <1>4 DEF Next

LEMMA TypeInit == Init => TypeInv
BY NullsOK, PluginsAssumption DEF Init, TypeInv, TypeOK, Wanted, KeyKnown, Looping

\* The table and what every run holds keep their types.
THEOREM TypeCorrect == Spec => []TypeOK
<1>1. TypeInv => TypeOK
  BY DEF TypeInv
<1> QED
  BY <1>1, TypeInit, TypeStep, PTL DEF Spec
-----------------------------------------------------------------------------
(* One value of a name *)

LEMMA OneValueStep == TypeInv /\ OneValue /\ [Next]_vars => OneValue'
<1> SUFFICES ASSUME TypeInv, OneValue, [Next]_vars PROVE OneValue'
  OBVIOUS
<1>0. TableOK
  BY TypeParts
<1>1. ASSUME NEW w \in Procs, Step(w) PROVE OneValue'
  <2>0. alive' = alive
    BY <1>1, TableStep
  <2>1. CASE ValueStays
    BY <2>0, <2>1 DEF ValueStays, OneValue
  <2>2. CASE ValueGoes
    BY <2>0, <2>2 DEF ValueGoes, Restrict, OneValue, Nothing
  <2>3. CASE ValueAdded(w)
    BY <2>0, <2>3 DEF ValueAdded, Put, InsertFails, Rows, OneValue
  <2>4. CASE ValueSaved(w)
    <3> DEFINE k == cur[w].pk
               n == cur[w].name
    <3>1. k \in DOMAIN value => value[k].name = n
      BY <2>4, TypeParts DEF ValueSaved, KeyKnown
    <3>2. alive
      BY <2>4, NullsOK DEF ValueSaved, SaveFails, InsertFails, OneValue
    <3>3. \A j \in DOMAIN value : value[j].name = n => j = k
      BY <2>4, <3>1 DEF ValueSaved, SaveFails, InsertFails, Rows, OneValue
    <3>4. \A j \in DOMAIN value' : /\ j # k => j \in DOMAIN value /\ value'[j] = value[j]
                                   /\ j = k => value'[j].name = n
      BY <2>4 DEF ValueSaved, Put
    <3> QED
      BY <2>0, <3>2, <3>3, <3>4 DEF OneValue
  <2> QED
    BY <1>1, <2>1, <2>2, <2>3, <2>4, TableStep
<1>2. CASE DeletePage
  BY <1>2, NullsOK DEF DeletePage, OneValue
<1>3. CASE SavePage
  BY <1>3 DEF SavePage, OneValue
<1>4. CASE UNCHANGED vars
  BY <1>4 DEF vars, OneValue
<1> QED
  BY <1>1, <1>2, <1>3, <1>4 DEF Next

\* However many runs store values of a page, saving by key what others have
\* deleted meanwhile, it has one value of a name, and none while it is deleted.
THEOREM ValuesUnique == Spec => []OneValue
<1>1. Init => OneValue
  BY NullsOK DEF Init, OneValue
<1> QED
  BY <1>1, TypeInit, TypeStep, OneValueStep, PTL DEF Spec

-----------------------------------------------------------------------------
(* Blank values *)

LEMMA BlankStep ==
    ASSUME TypeInv, BlankExplained, NEW w \in Procs, Step(w), Observe(w)
    PROVE  BlankExplained'
<1> SUFFICES ASSUME NEW k \in DOMAIN value', value'[k].text = Blank
             PROVE  k \in cut' \/ \E v \in Procs : pc'[v] = "save" /\ cur'[v].pk = k
  BY DEF BlankExplained
<1>0. /\ TableOK /\ ProcOK /\ Wanted /\ cut \subseteq cut'
      /\ \A v \in Procs \ {w} : pc'[v] = pc[v] /\ cur'[v] = cur[v]
  BY TypeParts, HeldStep DEF Observe
\* A value that was blank, and that w did not save, is explained as it was.
<1>1. ASSUME k \in DOMAIN value, value[k].text = Blank, ~ (ValueSaved(w) /\ k = cur[w].pk)
      PROVE  k \in cut' \/ \E v \in Procs : pc'[v] = "save" /\ cur'[v].pk = k
  <2>1. PICK v \in Procs : k \in cut \/ (pc[v] = "save" /\ cur[v].pk = k)
    BY <1>1 DEF BlankExplained
  <2>2. CASE v = w /\ pc[w] = "save" /\ cur[w].pk = k
    <3>1. SaveValue(w) \/ Abort(w)
      BY <2>2 DEF Step, RunPlugins, ReadNames, DeleteGone, FindValue, InsertValue, FindAgain, EndRun
    <3>2. pc'[w] = "idle"
      BY <1>0, <1>1, <2>2, <3>1 DEF SaveValue, Abort, Leave, Go, ValueSaved, ProcOK, TableOK
    <3> QED
      BY <2>2, <3>2 DEF Observe
  <2> QED
    BY <1>0, <2>1, <2>2
<1>2. CASE ValueStays /\ ~ ValueSaved(w)
  BY <1>1, <1>2 DEF ValueStays
<1>3. CASE ValueGoes /\ ~ ValueSaved(w)
  BY <1>1, <1>3 DEF ValueGoes, Restrict
<1>4. CASE ValueAdded(w)
  <2>1. k = nextPk \/ (k \in DOMAIN value /\ value'[k] = value[k])
    BY <1>4 DEF ValueAdded, Put
  <2>2. cur[w] \in [pk : Nat, name : Names]
    BY <1>0 DEF ProcOK
  <2>3. CASE k = nextPk
    BY <1>4, <2>2, <2>3 DEF ValueAdded
  <2> QED
    BY <1>1, <1>4, <2>1, <2>3 DEF ValueAdded, ValueSaved
<1>5. CASE ValueSaved(w)
  <2>1. cur[w].name \in DOMAIN want[w] /\ want[w] \in Returned
    BY <1>0, <1>5 DEF ValueSaved, Wanted, ProcOK
  <2>2. want[w][cur[w].name] # Blank
    BY <2>1, ReturnedOK, PluginsAssumption
  <2>3. k # cur[w].pk /\ k \in DOMAIN value /\ value'[k] = value[k]
    BY <1>5, <2>2 DEF ValueSaved, Put
  <2> QED
    BY <1>1, <2>3
<1> QED
  BY <1>2, <1>3, <1>4, <1>5, TableStep

\* No blank value is left in the table that a run will not fill or that a run
\* cut short did not leave.
THEOREM BlanksExplained == Spec => []BlankExplained
<1>1. Init => BlankExplained
  BY NullsOK DEF Init, BlankExplained
<1>2. TypeInv /\ BlankExplained /\ [Next]_vars => BlankExplained'
  <2> SUFFICES ASSUME TypeInv, BlankExplained, [Next]_vars PROVE BlankExplained'
    OBVIOUS
  <2>1. CASE DeletePage
    BY <2>1, NullsOK DEF DeletePage, BlankExplained
  <2>2. CASE SavePage \/ UNCHANGED vars
    BY <2>2 DEF SavePage, vars, BlankExplained
  <2> QED
    BY <2>1, <2>2, BlankStep DEF Next
<1> QED
  BY <1>1, <1>2, TypeInit, TypeStep, PTL DEF Spec
-----------------------------------------------------------------------------
(* A run that nobody disturbs is exact *)

\* The names that w has still to store.
Left(w) == todo[w] \cup IF pc[w] \in {"insert", "again", "save"} THEN {cur[w].name} ELSE {}

\* While nobody disturbs it, a run has stored what it has no more to store, and
\* nothing is stored that its plug-ins did not return.
StoredSoFar(w) ==
    /\ \A k \in DOMAIN value :
         /\ value[k].name \in DOMAIN want[w]
         /\ value[k].name \notin Left(w) => value[k].text = want[w][value[k].name]
    /\ \A n \in DOMAIN want[w] \ Left(w) : \E k \in DOMAIN value : value[k].name = n
    /\ pc[w] = "save" => cur[w].pk \in DOMAIN value

QuietInv == \A w \in Procs : quiet[w] =>
    /\ pc[w] = "delete" =>
         \A k \in DOMAIN value : value[k].name \in todo[w] \cup DOMAIN want[w]
    /\ pc[w] \in Looping => StoredSoFar(w)

LEMMA QuietStep ==
    ASSUME TypeInv, OneValue, QuietInv, NEW w \in Procs, Step(w), Observe(w)
    PROVE  QuietInv'
<1>0. /\ TableOK /\ ProcOK /\ Wanted /\ KeyKnown
      /\ want[w] \in Returned /\ want[w] \in [DOMAIN want[w] -> Texts]
  BY TypeParts DEF ProcOK, Returned
<1>1. ASSUME NEW v \in Procs \ {w}, quiet'[v]
      PROVE  /\ pc'[v] = "delete" =>
                  \A k \in DOMAIN value' : value'[k].name \in todo'[v] \cup DOMAIN want'[v]
             /\ pc'[v] \in Looping => StoredSoFar(v)'
  <2>1. quiet[v] /\ value' = value
    BY <1>1 DEF Observe
  <2>2. pc'[v] = pc[v] /\ cur'[v] = cur[v] /\ want'[v] = want[v] /\ todo'[v] = todo[v]
    <3>1. pc'[v] = pc[v] /\ cur'[v] = cur[v]
      BY HeldStep
    <3>2. want'[v] = want[v] /\ todo'[v] = todo[v]
      BY <1>0 DEF Step, RunPlugins, ReadNames, DeleteGone, FindValue, InsertValue, FindAgain,
                  SaveValue, EndRun, Abort, Leave, ProcOK
    <3> QED
      BY <3>1, <3>2
  <2>3. Left(v)' = Left(v)
    BY <2>2 DEF Left
  <2> QED
    BY <2>1, <2>2, <2>3 DEF QuietInv, StoredSoFar
<1>2. ASSUME quiet'[w]
      PROVE  /\ pc'[w] = "delete" =>
                  \A k \in DOMAIN value' : value'[k].name \in todo'[w] \cup DOMAIN want'[w]
             /\ pc'[w] \in Looping => StoredSoFar(w)'
  <2> USE DEF Go
  <2>0. pc'[w] # "idle" /\ (pc[w] = "names" \/ quiet[w])
    BY <1>2 DEF Observe
  <2>1. CASE \E r \in Returned : RunPlugins(w, r)
    BY <1>0, <2>1 DEF RunPlugins, ProcOK, Looping
  <2>2. CASE ReadNames(w)
    <3>1. value' = value /\ want' = want
      BY <2>2 DEF ReadNames
    <3>2. CASE Stored \ DOMAIN want[w] = {}
      <4>1. pc'[w] = "upsert" /\ todo'[w] = DOMAIN want[w]
        BY <1>0, <2>2, <3>2 DEF ReadNames, ProcOK
      <4>2. \A k \in DOMAIN value : value[k].name \in DOMAIN want[w]
        BY <3>2 DEF Stored
      <4> QED
        BY <3>1, <4>1, <4>2 DEF StoredSoFar, Left
    <3>3. CASE Stored \ DOMAIN want[w] # {}
      <4>1. pc'[w] = "delete" /\ todo'[w] = Stored \ DOMAIN want[w]
        BY <1>0, <2>2, <3>3 DEF ReadNames, ProcOK
      <4> QED
        BY <3>1, <4>1 DEF Looping, Stored
    <3> QED
      BY <3>2, <3>3
  <2>3. CASE DeleteGone(w)
    <3>1. /\ pc[w] = "delete" /\ pc'[w] = "upsert" /\ todo'[w] = DOMAIN want[w]
          /\ want' = want
      BY <1>0, <2>3 DEF DeleteGone, ProcOK
    <3>2. \A k \in DOMAIN value' : value'[k].name \in DOMAIN want[w]
      BY <2>0, <2>3, <3>1 DEF DeleteGone, Restrict, QuietInv
    <3> QED
      BY <3>1, <3>2 DEF StoredSoFar, Left
  <2>4. ASSUME NEW n \in Names, FindValue(w, n)
        PROVE  pc'[w] \in {"insert", "save"} /\ StoredSoFar(w)'
    <3>1. /\ quiet[w] /\ pc[w] = "upsert" /\ value' = value /\ want' = want
          /\ n \in todo[w] /\ todo'[w] = todo[w] \ {n}
      BY <1>0, <2>0, <2>4 DEF FindValue, ProcOK
    <3>2. /\ pc'[w] \in {"insert", "save"} /\ cur'[w].name = n
          /\ pc'[w] = "save" => cur'[w].pk \in DOMAIN value
      BY <1>0, <2>4 DEF FindValue, ProcOK, Rows
    <3>3. Left(w)' = todo[w] /\ Left(w) = todo[w]
      BY <3>1, <3>2 DEF Left
    <3> QED
      BY <3>1, <3>2, <3>3 DEF QuietInv, StoredSoFar, Looping
  <2>5. CASE InsertValue(w)
    <3>1. quiet[w] /\ pc[w] = "insert" /\ want' = want /\ todo' = todo
      BY <2>0, <2>5 DEF InsertValue
    <3>2. StoredSoFar(w) /\ cur[w].name \in DOMAIN want[w] /\ cur[w].name \in Left(w)
      BY <1>0, <3>1 DEF QuietInv, Looping, Wanted, Left
    <3>3. CASE InsertFails(cur[w].name)
      <4>1. pc'[w] = "again" /\ value' = value /\ cur' = cur
        BY <1>0, <2>5, <3>3 DEF InsertValue, ProcOK
      <4> QED
        BY <3>1, <3>2, <4>1 DEF StoredSoFar, Left
    <3>4. CASE ~ InsertFails(cur[w].name)
      <4>1. /\ pc'[w] = "save" /\ cur'[w].name = cur[w].name /\ cur'[w].pk = nextPk
            /\ value' = Put(nextPk, cur[w].name, Blank)
        BY <1>0, <2>5, <3>4 DEF InsertValue, ProcOK
      <4>2. Left(w)' = Left(w)
        BY <3>1, <4>1 DEF Left
      <4>3. /\ DOMAIN value' = DOMAIN value \cup {nextPk} /\ nextPk \notin DOMAIN value
            /\ value'[nextPk].name = cur[w].name
            /\ \A k \in DOMAIN value : value'[k] = value[k]
        BY <1>0, <4>1, PluginsAssumption DEF Put, TableOK
      <4> QED
        BY <3>1, <3>2, <4>1, <4>2, <4>3 DEF StoredSoFar, Looping
    <3> QED
      BY <3>3, <3>4
  <2>6. CASE FindAgain(w)
    <3>1. /\ quiet[w] /\ pc[w] = "again" /\ pc'[w] = "save" /\ value' = value
          /\ want' = want /\ todo' = todo
          /\ cur'[w].name = cur[w].name /\ cur'[w].pk \in DOMAIN value
      BY <1>0, <2>0, <2>6 DEF FindAgain, Leave, ProcOK, Rows
    <3>2. Left(w)' = Left(w)
      BY <3>1 DEF Left
    <3> QED
      BY <3>1, <3>2 DEF QuietInv, StoredSoFar, Looping
  <2>7. CASE SaveValue(w)
    <3> DEFINE key == cur[w].pk
               n == cur[w].name
    <3>1. /\ quiet[w] /\ pc[w] = "save" /\ pc'[w] = "upsert" /\ want' = want /\ todo' = todo
          /\ value' = Put(key, n, want[w][n])
      BY <1>0, <2>0, <2>7 DEF SaveValue, Leave, ProcOK
    <3>2. /\ StoredSoFar(w) /\ key \in DOMAIN value /\ value[key].name = n
          /\ n \in DOMAIN want[w]
      BY <1>0, <3>1 DEF QuietInv, StoredSoFar, Looping, KeyKnown, Wanted
    <3>3. /\ DOMAIN value' = DOMAIN value
          /\ value'[key].name = n /\ value'[key].text = want[w][n]
          /\ \A k \in DOMAIN value : k # key => value'[k] = value[k] /\ value[k].name # n
      BY <3>1, <3>2 DEF Put, OneValue
    <3>4. Left(w)' = todo[w] /\ Left(w) = todo[w] \cup {n}
      BY <3>1 DEF Left
    <3> HIDE DEF key, n
    <3>5. \A k \in DOMAIN value' :
            /\ value'[k].name \in DOMAIN want'[w]
            /\ value'[k].name \notin todo[w] => value'[k].text = want'[w][value'[k].name]
      BY <3>1, <3>2, <3>3, <3>4 DEF StoredSoFar
    <3>6. \A m \in DOMAIN want'[w] \ todo[w] : \E k \in DOMAIN value' : value'[k].name = m
      BY <3>1, <3>2, <3>3, <3>4 DEF StoredSoFar
    <3> QED
      BY <3>1, <3>4, <3>5, <3>6 DEF StoredSoFar
  <2>8. CASE EndRun(w) \/ Abort(w)
    BY <1>0, <2>0, <2>8 DEF EndRun, Abort, Leave, ProcOK
  <2> QED
    BY <2>1, <2>2, <2>3, <2>4, <2>5, <2>6, <2>7, <2>8 DEF Step
<1> QED
  BY <1>1, <1>2 DEF QuietInv

LEMMA QuietInit == Init => QuietInv
BY DEF Init, QuietInv

\* For any number of runs: one that nobody disturbed leaves exactly the values
\* that its plug-ins returned, whatever was there before.
THEOREM ValuesExact == Spec => ValuesMatchRun
<1>1. TypeInv /\ OneValue /\ QuietInv /\ [Next]_vars => QuietInv'
  <2> SUFFICES ASSUME TypeInv, OneValue, QuietInv, [Next]_vars PROVE QuietInv'
    OBVIOUS
  <2>1. CASE DeletePage
    BY <2>1 DEF DeletePage, QuietInv
  <2>2. CASE SavePage \/ UNCHANGED vars
    BY <2>2 DEF SavePage, vars, QuietInv, StoredSoFar, Left
  <2> QED
    BY <2>1, <2>2, QuietStep DEF Next
<1>2. ASSUME TypeInv, QuietInv, NEW w \in Procs, EndRun(w), quiet[w]
      PROVE  /\ Stored = DOMAIN want[w]
             /\ \A k \in DOMAIN value : value[k].text = want[w][value[k].name]
  <2>1. StoredSoFar(w) /\ Left(w) = {}
    BY <1>2 DEF QuietInv, EndRun, Looping, Left
  <2> QED
    BY <2>1 DEF StoredSoFar, Stored
<1>3. TypeInv /\ QuietInv => [\A w \in Procs : EndRun(w) /\ quiet[w] =>
         /\ Stored = DOMAIN want[w]
         /\ \A k \in DOMAIN value : value[k].text = want[w][value[k].name]]_vars
  BY <1>2
<1>4. Init => OneValue
  BY NullsOK DEF Init, OneValue
<1> QED
  BY <1>1, <1>3, <1>4, QuietInit, TypeInit, TypeStep, OneValueStep, PTL DEF Spec, ValuesMatchRun
=============================================================================
