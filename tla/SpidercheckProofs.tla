-------------------------- MODULE SpidercheckProofs --------------------------
(***************************************************************************)
(* Theorems about Spidercheck, for any number of processes, urls, keys and *)
(* operations and for both readings of ValidResults, and then for a single *)
(* process.                                                                *)
(*                                                                         *)
(* TypeOK and UniquePages are not inductive: an instance that a process    *)
(* holds is a future row of the table. The invariant says of the held      *)
(* instances what the invariants say of the rows, and that a key stands    *)
(* for one url wherever it occurs.                                         *)
(***************************************************************************)
EXTENDS Spidercheck, TLAPS

-----------------------------------------------------------------------------
(* The inductive invariant *)

\* Where a process still may save the instance it holds.
Saving == {"head", "saved", "unlink", "toggled"}

\* A held instance has a key that the sequence has handed out.
HeldKeys == \A w \in Procs : pc[w] \in Saving => inst[w].pk \in 1 .. (nextPk - 1)

TypeInv == TypeOK /\ HeldKeys

\* The parts of TypeOK.
PageOK ==
    /\ DOMAIN page \subseteq 1 .. (nextPk - 1)
    /\ \A p \in DOMAIN page : page[p] \in Row
    /\ nextPk \in 1 .. (MaxPk + 1)

ProcOK == pc \in [Procs -> Labels] /\ inst \in [Procs -> Instance]

-----------------------------------------------------------------------------
(* What the statements do to the types *)

\* The values given to new rows and idle processes are of their types.
LEMMA DefaultsOK ==
    /\ \A u \in Urls : NewRow(u) \in Row
    /\ NoInstance \in Instance
    /\ NoFrame \in Frame
<1>1. \A u \in Urls : NewRow(u) \in Row
  BY DEF NewRow, Row, Statuses, EPOCH
<1>2. NoInstance \in Instance
  BY <1>1, StoreAssumption DEF NoInstance, Instance
<1>3. NoFrame \in Frame
  BY StoreAssumption DEF NoFrame, Frame
<1> QED
  BY <1>1, <1>2, <1>3

\* What check_page and the toggle assign to an instance keeps it typed.
LEMMA AssignOK ==
    ASSUME NEW r \in Row, clock \in Nat
    PROVE  /\ Marked(r) \in Row /\ Answered(r) \in Row /\ Toggled(r) \in Row
           /\ \A c \in Statuses : Broken(r, c) \in Row
<1>1. Marked(r) \in Row
  <2>1. \A n \in Nat : [r EXCEPT !.checked_at = n, !.is_checked = TRUE] \in Row
    BY DEF Row
  <2>2. clock + 1 \in Nat
    OBVIOUS
  <2> QED
    BY <2>1, <2>2 DEF Marked
<1>2. Answered(r) \in Row
  BY DEF Row, Answered, Statuses
<1>3. Toggled(r) \in Row
  BY DEF Row, Toggled
<1>4. \A c \in Statuses : Broken(r, c) \in Row
  BY DEF Row, Broken
<1> QED
  BY <1>1, <1>2, <1>3, <1>4

\* save() of a row under a key already handed out keeps the table typed.
LEMMA SaveOK ==
    ASSUME PageOK, NEW k \in 1 .. (nextPk - 1), NEW row \in Row,
           Save(k, row), UNCHANGED nextPk
    PROVE  PageOK'
<1>1. page' = page \/ page' = Put(k, row)
  BY DEF Save
<1>2. CASE page' = page
  BY <1>2 DEF PageOK
<1>3. CASE page' = Put(k, row)
  BY <1>3 DEF PageOK, Put
<1> QED
  BY <1>1, <1>2, <1>3

\* An INSERT under the next key of the sequence keeps the table typed.
LEMMA InsertOK ==
    ASSUME PageOK, NEW row \in Row, Insert(row)
    PROVE  PageOK' /\ nextPk' = nextPk + 1
<1>1. nextPk' = nextPk + 1 /\ nextPk \in 1 .. MaxPk
  BY StoreAssumption DEF Insert, PageOK
<1>2. page' = page \/ page' = Put(nextPk, row)
  BY DEF Insert
<1>3. CASE page' = page
  BY <1>1, <1>3, StoreAssumption DEF PageOK
<1>4. CASE page' = Put(nextPk, row)
  BY <1>1, <1>4, StoreAssumption DEF PageOK, Put
<1> QED
  BY <1>1, <1>2, <1>3, <1>4

\* A deletion keeps the tables typed.
LEMMA DeleteOK ==
    ASSUME PageOK, link \subseteq Nat \X Nat, NEW S, Delete(S), UNCHANGED nextPk
    PROVE  PageOK' /\ link' \subseteq Nat \X Nat
BY DEF Delete, Without, PageOK

\* A process that moves on keeps the other processes where they are.
LEMMA GoOK ==
    ASSUME ProcOK, NEW w \in Procs, NEW l \in Labels, NEW i \in Instance,
           Go(w, l, i)
    PROVE  /\ ProcOK'
           /\ pc'[w] = l /\ inst'[w] = i
           /\ \A v \in Procs \ {w} : pc'[v] = pc[v] /\ inst'[v] = inst[v]
BY DEF ProcOK, Go

\* The same for a process that ends.
LEMMA ReturnOK ==
    ASSUME ProcOK, NEW w \in Procs, Return(w)
    PROVE  /\ ProcOK'
           /\ pc'[w] = "idle"
           /\ \A v \in Procs \ {w} : pc'[v] = pc[v] /\ inst'[v] = inst[v]
BY GoOK, DefaultsOK DEF Return, Labels

\* Observe assigns truth values.
LEMMA ObserveOK ==
    ASSUME NEW w \in Procs, Observe(w)
    PROVE  quiet' \in [Procs -> BOOLEAN]
BY DEF Observe

\* What a step of w that ends at l holding i has to show.
LEMMA GoType ==
    ASSUME TypeInv, NEW w \in Procs, NEW l \in Labels, NEW i \in Instance,
           Go(w, l, i), l \in Saving => i.pk \in 1 .. (nextPk - 1),
           PageOK', nextPk' \in {nextPk, nextPk + 1},
           link' \subseteq Nat \X Nat, clock' \in 0 .. MaxOps,
           upd' \in [Procs -> Frame], doomed' \in [Procs -> SUBSET Nat],
           quiet' \in [Procs -> BOOLEAN]
    PROVE  TypeInv'
<1>1. ProcOK /\ HeldKeys /\ nextPk \in Nat
  BY StoreAssumption DEF TypeInv, TypeOK, ProcOK
<1>2. /\ ProcOK'
      /\ pc'[w] = l /\ inst'[w] = i
      /\ \A v \in Procs \ {w} : pc'[v] = pc[v] /\ inst'[v] = inst[v]
  BY <1>1, GoOK
<1>3. HeldKeys'
  BY <1>1, <1>2 DEF HeldKeys
<1> QED
  BY <1>2, <1>3 DEF TypeInv, TypeOK, PageOK, ProcOK

\* What a step that ends the operation of w has to show.
LEMMA ReturnType ==
    ASSUME TypeInv, NEW w \in Procs, Return(w),
           PageOK', nextPk' \in {nextPk, nextPk + 1},
           link' \subseteq Nat \X Nat, clock' \in 0 .. MaxOps,
           upd' \in [Procs -> Frame], doomed' \in [Procs -> SUBSET Nat],
           quiet' \in [Procs -> BOOLEAN]
    PROVE  TypeInv'
BY GoType, DefaultsOK DEF Return, Labels, Saving

\* Starting an operation moves the time on, within its bound.
LEMMA StartOK ==
    ASSUME clock \in 0 .. MaxOps, NEW w \in Procs, Start(w)
    PROVE  clock' \in 0 .. MaxOps /\ clock' = clock + 1 /\ clock + 1 \in Nat \ {0}
BY StoreAssumption DEF Start

-----------------------------------------------------------------------------
(* Steps keep TypeInv *)

\* The steps of check_page and _update_links.
LEMMA CheckStepType ==
    ASSUME TypeInv, NEW w \in Procs, CheckStep(w), UNCHANGED doomed,
           quiet' \in [Procs -> BOOLEAN]
    PROVE  TypeInv'
<1>0. /\ PageOK /\ ProcOK /\ HeldKeys
      /\ link \subseteq Nat \X Nat /\ clock \in 0 .. MaxOps
      /\ upd \in [Procs -> Frame] /\ doomed' \in [Procs -> SUBSET Nat]
      /\ inst[w] \in Instance /\ inst[w].pk \in Nat /\ inst[w].row \in Row
      /\ upd[w] \in Frame /\ nextPk \in Nat /\ clock \in Nat
      /\ pc[w] \in Saving => inst[w].pk \in 1 .. (nextPk - 1)
  BY StoreAssumption DEF TypeInv, TypeOK, PageOK, ProcOK, HeldKeys, Instance
<1>f. ASSUME Finish(w), PageOK', nextPk' \in {nextPk, nextPk + 1},
             link' \subseteq Nat \X Nat, UNCHANGED clock
      PROVE  TypeInv'
  <2>1. upd' \in [Procs -> Frame]
    BY <1>0, <1>f, DefaultsOK DEF Finish
  <2> QED
    BY <1>0, <1>f, <2>1, ReturnType DEF Finish
<1>1. ASSUME NEW p \in 1 .. MaxPk, CheckStart(w, p)
      PROVE  TypeInv'
  <2> DEFINE i == [pk |-> p, row |-> Marked(page[p])]
  <2>1. Go(w, "head", i) /\ Start(w) /\ UNCHANGED <<page, link, nextPk, upd>>
    BY <1>1 DEF CheckStart
  <2>2. clock' \in 0 .. MaxOps
    BY <1>0, <2>1, StartOK
  <2>3. page[p] \in Row /\ p \in 1 .. (nextPk - 1)
    BY <1>0, <1>1 DEF CheckStart, PageOK
  <2>4. i \in Instance /\ i.pk = p
    BY <1>0, <2>3, AssignOK DEF Instance
  <2>5. PageOK' /\ link' \subseteq Nat \X Nat /\ upd' \in [Procs -> Frame] /\ nextPk' = nextPk
    BY <1>0, <2>1 DEF PageOK
  <2> HIDE DEF i
  <2> QED
    BY <1>0, <2>1, <2>2, <2>3, <2>4, <2>5, GoType DEF Labels
<1>2. CASE HeadFailure(w)
  <2>1. Broken(inst[w].row, -1) \in Row /\ inst[w].pk \in 1 .. (nextPk - 1)
    BY <1>0, <1>2, AssignOK DEF HeadFailure, Saving, Statuses
  <2>2. /\ Save(inst[w].pk, Broken(inst[w].row, -1))
        /\ UNCHANGED <<link, nextPk, clock>> /\ Finish(w)
    BY <1>2 DEF HeadFailure
  <2>3. PageOK'
    BY <1>0, <2>1, <2>2, SaveOK
  <2> QED
    BY <1>0, <1>f, <2>2, <2>3
<1>3. CASE HeadNoResponse(w) \/ NotHtml(w) \/ NotLocal(w)
  <2>1. /\ Finish(w) /\ UNCHANGED <<page, nextPk, clock>> /\ link' \subseteq link
    BY <1>3 DEF HeadNoResponse, NotHtml, NotLocal
  <2> QED
    BY <1>0, <1>f, <2>1 DEF PageOK
<1>4. CASE HeadSuccess(w)
  <2> DEFINE i == [inst[w] EXCEPT !.row = Answered(@)]
  <2>1. i \in Instance /\ i.pk = inst[w].pk /\ i.row = Answered(inst[w].row)
    BY <1>0, AssignOK DEF Instance
  <2>2. /\ pc[w] = "head"
        /\ Save(i.pk, i.row) /\ UNCHANGED <<link, nextPk, clock>>
        /\ Finish(w) \/ (Go(w, "saved", i) /\ UNCHANGED upd)
    BY <1>4 DEF HeadSuccess
  <2> HIDE DEF i
  <2>3. i.row \in Row /\ i.pk \in 1 .. (nextPk - 1)
    BY <1>0, <2>1, <2>2, AssignOK DEF Saving
  <2>4. PageOK'
    BY <1>0, <2>2, <2>3, SaveOK
  <2>5. CASE Finish(w)
    BY <1>0, <1>f, <2>2, <2>4, <2>5
  <2>6. CASE Go(w, "saved", i) /\ UNCHANGED upd
    BY <1>0, <2>1, <2>2, <2>3, <2>4, <2>6, GoType DEF Labels
  <2> QED
    BY <2>2, <2>5, <2>6
<1>5. CASE InvalidHtml(w)
  <2>1. Broken(inst[w].row, 418) \in Row /\ inst[w].pk \in 1 .. (nextPk - 1)
    BY <1>0, <1>5, AssignOK DEF InvalidHtml, Saving, Statuses
  <2>2. /\ Save(inst[w].pk, Broken(inst[w].row, 418))
        /\ UNCHANGED <<link, nextPk, clock>> /\ Finish(w)
    BY <1>5 DEF InvalidHtml
  <2>3. PageOK'
    BY <1>0, <2>1, <2>2, SaveOK
  <2> QED
    BY <1>0, <1>f, <2>2, <2>3
<1>6. ASSUME NEW urls \in SUBSET Urls, ReadBody(w, urls)
      PROVE  TypeInv'
  <2>1. OutgoingLinks(inst[w].pk) \subseteq Nat
    BY <1>0 DEF OutgoingLinks, PageOK
  <2>2. upd' \in [Procs -> Frame]
    BY <1>0, <1>6, <2>1, DefaultsOK DEF ReadBody, Frame
  <2> QED
    BY <1>0, <1>6, <2>2, GoType DEF ReadBody, PageOK, Labels, Saving
<1>7. ASSUME NEW u \in Urls, FindTarget(w, u)
      PROVE  TypeInv'
  <2>1. PagesAt(u) \subseteq Nat
    BY <1>0 DEF PagesAt, PageOK
  <2>2. PICK l \in {"links", "link", "insert"} : Go(w, l, inst[w])
    BY <1>7 DEF FindTarget
  <2>3. upd' \in [Procs -> Frame]
    <3>1. upd[w] \in Frame
      BY <1>0
    <3>2. PICK f \in Frame : upd' = [upd EXCEPT ![w] = f]
      <4>1. CASE \E q \in PagesAt(u) : upd' = [upd EXCEPT ![w].todo = @ \ {u}, ![w].target = q]
        BY <1>0, <2>1, <3>1, <4>1 DEF Frame
      <4>2. CASE upd' = [upd EXCEPT ![w].todo = @ \ {u}]
        BY <1>0, <3>1, <4>2 DEF Frame
      <4>3. CASE upd' = [upd EXCEPT ![w].todo = @ \ {u}, ![w].want = u]
        BY <1>0, <3>1, <4>3 DEF Frame
      <4> QED
        BY <1>7, <4>1, <4>2, <4>3 DEF FindTarget
    <3> QED
      BY <1>0, <3>2
  <2> QED
    BY <1>0, <1>7, <2>2, <2>3, GoType DEF FindTarget, PageOK, Labels, Saving
<1>8. CASE CreateTarget(w)
  <2>1. NewRow(upd[w].want) \in Row
    BY <1>0, DefaultsOK DEF Frame
  <2>2. PageOK' /\ nextPk' = nextPk + 1 /\ UNCHANGED <<link, clock>>
    BY <1>0, <1>8, <2>1, InsertOK DEF CreateTarget
  <2>3. CASE Finish(w)
    BY <1>0, <1>f, <2>2, <2>3
  <2>4. CASE Go(w, "link", inst[w]) /\ upd' = [upd EXCEPT ![w].target = nextPk]
    <3>1. upd' \in [Procs -> Frame]
      BY <1>0, <2>4 DEF Frame
    <3> QED
      BY <1>0, <2>2, <2>4, <3>1, GoType DEF Labels, Saving
  <2> QED
    BY <1>8, <2>3, <2>4 DEF CreateTarget
<1>9. CASE AddLink(w)
  <2>1. PageOK' /\ UNCHANGED <<nextPk, clock>>
    BY <1>0, <1>9 DEF AddLink, PageOK
  <2>2. CASE Finish(w) /\ UNCHANGED link
    BY <1>0, <1>f, <2>1, <2>2
  <2>3. CASE /\ link' = link \cup {<<inst[w].pk, upd[w].target>>}
             /\ Go(w, "links", inst[w])
             /\ upd' = [upd EXCEPT ![w].after = @ \cup {upd[w].target}]
    <3>1. upd[w].target \in Nat /\ upd[w].after \subseteq Nat
      BY <1>0 DEF Frame
    <3>2. upd' \in [Procs -> Frame]
      BY <1>0, <2>3, <3>1 DEF Frame
    <3>3. link' \subseteq Nat \X Nat
      BY <1>0, <2>3, <3>1
    <3> QED
      BY <1>0, <2>1, <2>3, <3>2, <3>3, GoType DEF Labels, Saving
  <2> QED
    BY <1>9, <2>2, <2>3 DEF AddLink
<1>10. CASE RemoveLinks(w)
  <2>1. /\ Finish(w) /\ UNCHANGED <<page, nextPk, clock>> /\ link' \subseteq link
    BY <1>10 DEF RemoveLinks
  <2> QED
    BY <1>0, <1>f, <2>1 DEF PageOK
<1> QED
  BY <1>1, <1>2, <1>3, <1>4, <1>5, <1>6, <1>7, <1>8, <1>9, <1>10 DEF CheckStep

\* The steps of the views and of reset_site.
LEMMA ViewsStepType ==
    ASSUME TypeInv, NEW w \in Procs, ViewsStep(w), UNCHANGED upd,
           quiet' \in [Procs -> BOOLEAN]
    PROVE  TypeInv'
<1>0. /\ PageOK /\ ProcOK /\ HeldKeys
      /\ link \subseteq Nat \X Nat /\ clock \in 0 .. MaxOps /\ clock \in Nat
      /\ upd' \in [Procs -> Frame] /\ doomed \in [Procs -> SUBSET Nat]
      /\ inst[w] \in Instance /\ inst[w].pk \in Nat /\ inst[w].row \in Row
      /\ nextPk \in Nat
      /\ pc[w] \in Saving => inst[w].pk \in 1 .. (nextPk - 1)
  BY StoreAssumption DEF TypeInv, TypeOK, PageOK, ProcOK, HeldKeys, Instance
<1>f. ASSUME Leave(w), PageOK', nextPk' \in {nextPk, nextPk + 1},
             link' \subseteq Nat \X Nat, clock' \in 0 .. MaxOps
      PROVE  TypeInv'
  <2>1. doomed' \in [Procs -> SUBSET Nat]
    BY <1>0, <1>f DEF Leave
  <2> QED
    BY <1>0, <1>f, <2>1, ReturnType DEF Leave
<1>1. ASSUME NEW p \in 1 .. MaxPk, ToggleStart(w, p)
      PROVE  TypeInv'
  <2> DEFINE i == [pk |-> p, row |-> Toggled(page[p])]
  <2>1. PICK l \in {"toggled", "unlink"} : Go(w, l, i)
    BY <1>1 DEF ToggleStart
  <2>2. Start(w) /\ UNCHANGED <<page, link, nextPk, doomed>>
    BY <1>1 DEF ToggleStart
  <2>3. page[p] \in Row /\ p \in 1 .. (nextPk - 1)
    BY <1>0, <1>1 DEF ToggleStart, PageOK
  <2>4. i \in Instance /\ i.pk = p
    BY <1>0, <2>3, AssignOK DEF Instance
  <2>5. PageOK' /\ clock' \in 0 .. MaxOps
    BY <1>0, <2>2, StartOK DEF PageOK
  <2> HIDE DEF i
  <2> QED
    BY <1>0, <2>1, <2>2, <2>3, <2>4, <2>5, GoType DEF Labels
<1>2. CASE ToggleUnlink(w)
  BY <1>0, <1>2, GoType DEF ToggleUnlink, PageOK, Labels, Saving
<1>3. CASE ToggleSave(w)
  <2>1. Save(inst[w].pk, inst[w].row) /\ UNCHANGED <<link, nextPk, clock>> /\ Leave(w)
    BY <1>3 DEF ToggleSave
  <2>2. PageOK'
    BY <1>0, <1>3, <2>1, SaveOK DEF ToggleSave, Saving
  <2> QED
    BY <1>0, <1>f, <2>1, <2>2
<1>4. ASSUME NEW p \in 1 .. MaxPk, DeleteStart(w, p)
      PROVE  TypeInv'
  <2> DEFINE i == [pk |-> p, row |-> page[p]]
  <2>1. Go(w, "delete", i) /\ Start(w) /\ UNCHANGED <<page, link, nextPk, doomed>>
    BY <1>4 DEF DeleteStart
  <2>2. i \in Instance
    BY <1>0, <1>4 DEF DeleteStart, PageOK, Instance
  <2>3. PageOK' /\ clock' \in 0 .. MaxOps
    BY <1>0, <2>1, StartOK DEF PageOK
  <2> HIDE DEF i
  <2> QED
    BY <1>0, <2>1, <2>2, <2>3, GoType DEF Labels, Saving
<1>5. ASSUME NEW S \in SUBSET (1 .. MaxPk), ExpungeStart(w, S)
      PROVE  TypeInv'
  <2>1. /\ Go(w, "expunge", NoInstance) /\ Start(w)
        /\ doomed' = [doomed EXCEPT ![w] = S] /\ UNCHANGED <<page, link, nextPk>>
    BY <1>5 DEF ExpungeStart
  <2>2. S \subseteq Nat /\ doomed' \in [Procs -> SUBSET Nat]
    BY <1>0, <2>1, StoreAssumption
  <2>3. PageOK' /\ clock' \in 0 .. MaxOps
    BY <1>0, <2>1, StartOK DEF PageOK
  <2> QED
    BY <1>0, <2>1, <2>2, <2>3, GoType, DefaultsOK DEF Labels, Saving
<1>6. ASSUME NEW p \in 1 .. MaxPk, ExpungeTest(w, p)
      PROVE  TypeInv'
  <2> DEFINE i == [NoInstance EXCEPT !.pk = p]
  <2>1. i \in Instance
    BY DefaultsOK DEF Instance
  <2>2. /\ pc[w] = "expunge" /\ doomed' = [doomed EXCEPT ![w] = @ \ {p}]
        /\ Go(w, "delete", i) \/ UNCHANGED <<pc, inst>>
        /\ UNCHANGED <<page, link, nextPk, clock>>
    BY <1>6 DEF ExpungeTest
  <2> HIDE DEF i
  <2>3. PageOK' /\ doomed' \in [Procs -> SUBSET Nat]
    BY <1>0, <2>2 DEF PageOK
  <2>4. CASE Go(w, "delete", i)
    BY <1>0, <2>1, <2>2, <2>3, <2>4, GoType DEF Labels, Saving
  <2>5. CASE UNCHANGED <<pc, inst>>
    BY <1>0, <2>2, <2>3, <2>5 DEF TypeInv, TypeOK, PageOK, ProcOK, HeldKeys
  <2> QED
    BY <2>2, <2>4, <2>5
<1>7. CASE ExpungeEnd(w)
  BY <1>0, <1>7, <1>f DEF ExpungeEnd, PageOK
<1>8. CASE DeletePage(w)
  <2>1. Delete({inst[w].pk}) /\ UNCHANGED <<nextPk, clock>>
    BY <1>8 DEF DeletePage
  <2>2. PageOK' /\ link' \subseteq Nat \X Nat
    BY <1>0, <2>1, DeleteOK
  <2>3. CASE Leave(w)
    BY <1>0, <1>f, <2>1, <2>2, <2>3
  <2>4. CASE Go(w, "expunge", NoInstance) /\ UNCHANGED doomed
    BY <1>0, <2>1, <2>2, <2>4, GoType, DefaultsOK DEF Labels, Saving
  <2> QED
    BY <1>8, <2>3, <2>4 DEF DeletePage
<1>9. CASE ResetStart(w)
  <2>1. /\ Delete(DOMAIN page) /\ Start(w) /\ Go(w, "reseed", NoInstance)
        /\ UNCHANGED <<nextPk, doomed>>
    BY <1>9 DEF ResetStart
  <2>2. PageOK' /\ link' \subseteq Nat \X Nat /\ clock' \in 0 .. MaxOps
    BY <1>0, <2>1, DeleteOK, StartOK
  <2> QED
    BY <1>0, <2>1, <2>2, GoType, DefaultsOK DEF Labels, Saving
<1>10. CASE ResetFind(w)
  <2>1. /\ (Go(w, "reinsert", NoInstance) /\ UNCHANGED doomed) \/ Leave(w)
        /\ UNCHANGED <<page, link, nextPk, clock>>
    BY <1>10 DEF ResetFind
  <2>2. PageOK'
    BY <1>0, <2>1 DEF PageOK
  <2>3. CASE Leave(w)
    BY <1>0, <1>f, <2>1, <2>2, <2>3
  <2>4. CASE Go(w, "reinsert", NoInstance) /\ UNCHANGED doomed
    BY <1>0, <2>1, <2>2, <2>4, GoType, DefaultsOK DEF Labels, Saving
  <2> QED
    BY <2>1, <2>3, <2>4
<1>11. CASE ResetCreate(w)
  <2>1. Insert(NewRow(Seed)) /\ Leave(w) /\ UNCHANGED <<link, clock>>
    BY <1>11 DEF ResetCreate
  <2>2. PageOK' /\ nextPk' = nextPk + 1
    BY <1>0, <2>1, InsertOK, DefaultsOK, StoreAssumption
  <2> QED
    BY <1>0, <1>f, <2>1, <2>2
<1> QED
  BY <1>1, <1>2, <1>3, <1>4, <1>5, <1>6, <1>7, <1>8, <1>9, <1>10, <1>11 DEF ViewsStep

\* The initial tables.
LEMMA TypeInit == Init => TypeInv
<1> SUFFICES ASSUME Init PROVE TypeInv
  OBVIOUS
<1>1. DOMAIN page = {1} /\ nextPk = 2 /\ link = {} /\ clock = 0
  BY DEF Init, StoreInit
<1>2. page[1] \in Row
  <2>1. page[1] = [NewRow(Seed) EXCEPT !.status = -1]
    BY DEF Init, StoreInit
  <2>2. \A r \in Row : [r EXCEPT !.status = -1] \in Row
    BY DEF Row, Statuses
  <2> QED
    BY <2>1, <2>2, StoreAssumption, DefaultsOK
<1>3. PageOK
  BY <1>1, <1>2, StoreAssumption DEF PageOK
<1>4. ProcOK /\ HeldKeys
  BY DefaultsOK DEF Init, StoreInit, ProcOK, HeldKeys, Labels, Saving
<1>5. /\ upd \in [Procs -> Frame] /\ doomed \in [Procs -> SUBSET Nat]
      /\ quiet \in [Procs -> BOOLEAN]
  BY DefaultsOK DEF Init, CheckInit, ViewsInit
<1> QED
  BY <1>1, <1>3, <1>4, <1>5, StoreAssumption DEF TypeInv, TypeOK, PageOK, ProcOK

\* Every step, and every stuttering step.
LEMMA TypeStep == TypeInv /\ [Next]_vars => TypeInv'
<1> SUFFICES ASSUME TypeInv, [Next]_vars PROVE TypeInv'
  OBVIOUS
<1>1. ASSUME NEW w \in Procs, Step(w), Observe(w) PROVE TypeInv'
  <2>1. quiet' \in [Procs -> BOOLEAN]
    BY <1>1, ObserveOK
  <2>2. CASE CheckStep(w) /\ UNCHANGED doomed
    BY <2>1, <2>2, CheckStepType
  <2>3. CASE ViewsStep(w) /\ UNCHANGED upd
    BY <2>1, <2>3, ViewsStepType
  <2>4. CASE Abort(w)
    <3>1. /\ Return(w) /\ upd' = [upd EXCEPT ![w] = NoFrame]
          /\ doomed' = [doomed EXCEPT ![w] = {}]
          /\ UNCHANGED <<page, link, nextPk, clock>>
      BY <2>4 DEF Abort, Finish
    <3>2. /\ PageOK' /\ link' \subseteq Nat \X Nat /\ clock' \in 0 .. MaxOps
          /\ upd' \in [Procs -> Frame] /\ doomed' \in [Procs -> SUBSET Nat]
      BY <3>1, DefaultsOK DEF TypeInv, TypeOK, PageOK
    <3> QED
      BY <2>1, <3>1, <3>2, ReturnType
  <2> QED
    BY <1>1, <2>2, <2>3, <2>4 DEF Step
<1>2. CASE UNCHANGED vars
  BY <1>2 DEF vars, storeVars, TypeInv, TypeOK, HeldKeys
<1> QED
  BY <1>1, <1>2 DEF Next

\* The tables and the locals of every process keep their types, and the tables
\* hold only keys that the sequence has handed out.
THEOREM TypeCorrect == Spec => []TypeOK
<1>1. TypeInv => TypeOK
  BY DEF TypeInv
<1> QED
  BY <1>1, TypeInit, TypeStep, PTL DEF Spec

-----------------------------------------------------------------------------
(* What a step can do to the table page and to the held instances *)

\* The row saved by w differs from its instance in status, message and
\* is_linkable at most; it is either that of a page that was accepted or has a
\* message, or it is the row the toggle loaded.
SavedRow(w, row) ==
    /\ row \in Row
    /\ row.url = inst[w].row.url
    /\ row.is_checked = inst[w].row.is_checked
    /\ row.checked_at = inst[w].row.checked_at
    /\ \/ is_ok(row)
       \/ row.error_message
       \/ pc[w] = "toggled" /\ row = inst[w].row

\* One row is written, one row is new, rows go, or the table stays.
PageMove(w) ==
    \/ page' = page
    \/ pc[w] \in Saving /\ \E row : SavedRow(w, row) /\ Save(inst[w].pk, row)
    \/ \E u \in Urls : Insert(NewRow(u))
    \/ \E S : page' = Without(S)

\* The instance w holds for saving was loaded by this step and marked or
\* toggled, or is the one it held, now answered, or the same.
HeldMove(w) ==
    pc'[w] \in Saving =>
        \/ /\ page' = page
           /\ inst'[w].pk \in DOMAIN page
           /\ \/ pc'[w] = "head" /\ inst'[w].row = Marked(page[inst'[w].pk])
              \/ pc'[w] \in {"unlink", "toggled"}
                 /\ inst'[w].row = Toggled(page[inst'[w].pk])
        \/ /\ pc[w] = "head" /\ pc'[w] = "saved"
           /\ inst'[w].pk = inst[w].pk
           /\ inst'[w].row = Answered(inst[w].row)
        \/ pc[w] = "unlink" /\ pc'[w] = "toggled" /\ inst'[w] = inst[w]

StepShape(w) ==
    /\ \A v \in Procs \ {w} : pc'[v] = pc[v] /\ inst'[v] = inst[v]
    /\ PageMove(w)
    /\ HeldMove(w)

\* The fields that Marked, Answered, Broken and Toggled leave and set.
LEMMA AssignFields ==
    ASSUME NEW r \in Row, clock \in Nat
    PROVE  /\ Marked(r).url = r.url /\ Marked(r).is_checked
           /\ Marked(r).checked_at = clock + 1
           /\ Answered(r).url = r.url /\ Answered(r).is_checked = r.is_checked
           /\ Answered(r).checked_at = r.checked_at /\ is_ok(Answered(r))
           /\ Toggled(r).url = r.url /\ Toggled(r).is_checked = r.is_checked
           /\ Toggled(r).checked_at = r.checked_at
           /\ Toggled(r).status = r.status
           /\ Toggled(r).error_message = r.error_message
           /\ \A c \in Statuses :
                /\ Broken(r, c).url = r.url
                /\ Broken(r, c).is_checked = r.is_checked
                /\ Broken(r, c).checked_at = r.checked_at
                /\ Broken(r, c).error_message
<1>1. /\ Marked(r).url = r.url /\ Marked(r).is_checked
      /\ Marked(r).checked_at = clock + 1
  BY DEF Row, Marked
<1>2. /\ Answered(r).url = r.url /\ Answered(r).is_checked = r.is_checked
      /\ Answered(r).checked_at = r.checked_at /\ is_ok(Answered(r))
  BY DEF Row, Answered, is_ok
<1>3. /\ Toggled(r).url = r.url /\ Toggled(r).is_checked = r.is_checked
      /\ Toggled(r).checked_at = r.checked_at
      /\ Toggled(r).status = r.status
      /\ Toggled(r).error_message = r.error_message
  BY DEF Row, Toggled
<1>4. ASSUME NEW c \in Statuses
      PROVE  /\ Broken(r, c).url = r.url
             /\ Broken(r, c).is_checked = r.is_checked
             /\ Broken(r, c).checked_at = r.checked_at
             /\ Broken(r, c).error_message
  BY DEF Row, Broken
<1> QED
  BY <1>1, <1>2, <1>3, <1>4

\* The rows check_page saves.
LEMMA SavedByCheck ==
    ASSUME NEW w \in Procs, inst[w].row \in Row, clock \in Nat
    PROVE  /\ SavedRow(w, Answered(inst[w].row))
           /\ SavedRow(w, Broken(inst[w].row, -1))
           /\ SavedRow(w, Broken(inst[w].row, 418))
<1> DEFINE r == inst[w].row
<1>1. -1 \in Statuses /\ 418 \in Statuses
  BY DEF Statuses
<1>2. /\ Answered(r) \in Row
      /\ \A c \in Statuses : Broken(r, c) \in Row
  BY AssignOK
<1>3. /\ Answered(r).url = r.url /\ Answered(r).is_checked = r.is_checked
      /\ Answered(r).checked_at = r.checked_at /\ is_ok(Answered(r))
  BY AssignFields, Zenon
<1>4. \A c \in Statuses :
         /\ Broken(r, c).url = r.url /\ Broken(r, c).is_checked = r.is_checked
         /\ Broken(r, c).checked_at = r.checked_at /\ Broken(r, c).error_message
  BY AssignFields, Zenon
<1>5. SavedRow(w, Answered(r))
  BY <1>2, <1>3 DEF SavedRow
<1>6. ASSUME NEW c \in Statuses
      PROVE  SavedRow(w, Broken(r, c))
  BY <1>2, <1>4, <1>6 DEF SavedRow
<1> QED
  BY <1>1, <1>5, <1>6

\* A step that ends the operation of w.
LEMMA ReturnShape ==
    ASSUME TypeInv, NEW w \in Procs, Return(w), PageMove(w)
    PROVE  StepShape(w)
<1>1. ProcOK
  BY DEF TypeInv, TypeOK, ProcOK
<1> QED
  BY <1>1, ReturnOK DEF StepShape, HeldMove, Saving

\* A step of w that goes to a label where nothing is saved.
LEMMA GoShape ==
    ASSUME TypeInv, NEW w \in Procs, NEW l \in Labels \ Saving,
           NEW i \in Instance, Go(w, l, i), PageMove(w)
    PROVE  StepShape(w)
<1>1. ProcOK
  BY DEF TypeInv, TypeOK, ProcOK
<1> QED
  BY <1>1, GoOK DEF StepShape, HeldMove

\* The steps of check_page and _update_links.
LEMMA CheckStepShape ==
    ASSUME TypeInv, NEW w \in Procs, CheckStep(w)
    PROVE  StepShape(w)
<1>0. /\ PageOK /\ ProcOK /\ clock \in Nat
      /\ inst[w] \in Instance /\ inst[w].row \in Row /\ upd[w] \in Frame
  BY StoreAssumption DEF TypeInv, TypeOK, PageOK, ProcOK, Instance
<1>1. ASSUME NEW p \in 1 .. MaxPk, CheckStart(w, p)
      PROVE  StepShape(w)
  <2> DEFINE i == [pk |-> p, row |-> Marked(page[p])]
  <2>1. Go(w, "head", i) /\ p \in DOMAIN page /\ page' = page
    BY <1>1 DEF CheckStart
  <2>2. i \in Instance /\ i.pk = p /\ i.row = Marked(page[p])
    BY <1>0, <2>1, AssignOK DEF Instance, PageOK
  <2> HIDE DEF i
  <2>3. /\ pc'[w] = "head" /\ inst'[w] = i
        /\ \A v \in Procs \ {w} : pc'[v] = pc[v] /\ inst'[v] = inst[v]
    BY <1>0, <2>1, <2>2, GoOK DEF Labels
  <2> QED
    BY <2>1, <2>2, <2>3 DEF StepShape, PageMove, HeldMove
<1>2. CASE HeadFailure(w)
  <2>1. /\ pc[w] \in Saving /\ Return(w)
        /\ Save(inst[w].pk, Broken(inst[w].row, -1))
    BY <1>2 DEF HeadFailure, Finish, Saving
  <2>2. SavedRow(w, Broken(inst[w].row, -1))
    BY <1>0, SavedByCheck
  <2> QED
    BY <2>1, <2>2, ReturnShape DEF PageMove
<1>3. CASE HeadNoResponse(w) \/ NotHtml(w) \/ NotLocal(w) \/ RemoveLinks(w)
  <2>1. Return(w) /\ page' = page
    BY <1>3 DEF HeadNoResponse, NotHtml, NotLocal, RemoveLinks, Finish
  <2> QED
    BY <2>1, ReturnShape DEF PageMove
<1>4. CASE HeadSuccess(w)
  <2> DEFINE i == [inst[w] EXCEPT !.row = Answered(@)]
  <2>1. i \in Instance /\ i.pk = inst[w].pk /\ i.row = Answered(inst[w].row)
    BY <1>0, AssignOK DEF Instance
  <2>2. /\ pc[w] = "head" /\ Save(i.pk, i.row)
        /\ Return(w) \/ Go(w, "saved", i)
    BY <1>4 DEF HeadSuccess, Finish
  <2> HIDE DEF i
  <2>3. PageMove(w)
    <3>1. SavedRow(w, i.row)
      BY <1>0, <2>1, SavedByCheck
    <3> QED
      BY <2>1, <2>2, <3>1 DEF PageMove, Saving
  <2>4. CASE Return(w)
    BY <2>3, <2>4, ReturnShape
  <2>5. CASE Go(w, "saved", i)
    <3>1. /\ pc'[w] = "saved" /\ inst'[w] = i
          /\ \A v \in Procs \ {w} : pc'[v] = pc[v] /\ inst'[v] = inst[v]
      BY <1>0, <2>1, <2>5, GoOK DEF Labels
    <3> QED
      BY <2>1, <2>2, <2>3, <3>1 DEF StepShape, HeldMove
  <2> QED
    BY <2>2, <2>4, <2>5
<1>5. CASE InvalidHtml(w)
  <2>1. /\ pc[w] \in Saving /\ Return(w)
        /\ Save(inst[w].pk, Broken(inst[w].row, 418))
    BY <1>5 DEF InvalidHtml, Finish, Saving
  <2>2. SavedRow(w, Broken(inst[w].row, 418))
    BY <1>0, SavedByCheck
  <2> QED
    BY <2>1, <2>2, ReturnShape DEF PageMove
<1>6. ASSUME NEW urls \in SUBSET Urls, ReadBody(w, urls)
      PROVE  StepShape(w)
  BY <1>0, <1>6, GoShape DEF ReadBody, PageMove, Labels, Saving
<1>7. ASSUME NEW u \in Urls, FindTarget(w, u)
      PROVE  StepShape(w)
  <2>1. PICK l \in {"links", "link", "insert"} : Go(w, l, inst[w])
    BY <1>7 DEF FindTarget
  <2>2. page' = page
    BY <1>7 DEF FindTarget
  <2> QED
    BY <1>0, <2>1, <2>2, GoShape DEF PageMove, Labels, Saving
<1>8. CASE CreateTarget(w)
  <2>1. Insert(NewRow(upd[w].want)) /\ (Return(w) \/ Go(w, "link", inst[w]))
    BY <1>8 DEF CreateTarget, Finish
  <2>2. PageMove(w)
    BY <1>0, <2>1 DEF PageMove, Frame
  <2> QED
    BY <1>0, <2>1, <2>2, GoShape, ReturnShape DEF Labels, Saving
<1>9. CASE AddLink(w)
  <2>1. page' = page /\ (Return(w) \/ Go(w, "links", inst[w]))
    BY <1>9 DEF AddLink, Finish
  <2> QED
    BY <1>0, <2>1, GoShape, ReturnShape DEF PageMove, Labels, Saving
<1> QED
  BY <1>1, <1>2, <1>3, <1>4, <1>5, <1>6, <1>7, <1>8, <1>9 DEF CheckStep

\* The steps of the views and of reset_site.
LEMMA ViewsStepShape ==
    ASSUME TypeInv, NEW w \in Procs, ViewsStep(w)
    PROVE  StepShape(w)
<1>0. /\ PageOK /\ ProcOK /\ clock \in Nat
      /\ inst[w] \in Instance /\ inst[w].row \in Row
  BY StoreAssumption DEF TypeInv, TypeOK, PageOK, ProcOK, Instance
<1>1. ASSUME NEW p \in 1 .. MaxPk, ToggleStart(w, p)
      PROVE  StepShape(w)
  <2> DEFINE i == [pk |-> p, row |-> Toggled(page[p])]
  <2>1. /\ \E l \in {"toggled", "unlink"} : Go(w, l, i)
        /\ p \in DOMAIN page /\ page' = page
    BY <1>1 DEF ToggleStart
  <2>2. i \in Instance /\ i.pk = p /\ i.row = Toggled(page[p])
    BY <1>0, <2>1, AssignOK DEF Instance, PageOK
  <2> HIDE DEF i
  <2>3. /\ pc'[w] \in {"toggled", "unlink"} /\ inst'[w] = i
        /\ \A v \in Procs \ {w} : pc'[v] = pc[v] /\ inst'[v] = inst[v]
    BY <1>0, <2>1, <2>2, GoOK DEF Labels
  <2> QED
    BY <2>1, <2>2, <2>3 DEF StepShape, PageMove, HeldMove
<1>2. CASE ToggleUnlink(w)
  <2>1. /\ pc[w] = "unlink" /\ pc'[w] = "toggled" /\ inst'[w] = inst[w]
        /\ \A v \in Procs \ {w} : pc'[v] = pc[v] /\ inst'[v] = inst[v]
    BY <1>0, <1>2, GoOK DEF ToggleUnlink, Labels
  <2> QED
    BY <1>2, <2>1 DEF ToggleUnlink, StepShape, PageMove, HeldMove
<1>3. CASE ToggleSave(w)
  <2>1. pc[w] = "toggled" /\ Save(inst[w].pk, inst[w].row) /\ Return(w)
    BY <1>3 DEF ToggleSave, Leave
  <2>2. SavedRow(w, inst[w].row)
    BY <1>0, <2>1 DEF SavedRow
  <2> QED
    BY <2>1, <2>2, ReturnShape DEF PageMove, Saving
<1>4. ASSUME NEW p \in 1 .. MaxPk, DeleteStart(w, p)
      PROVE  StepShape(w)
  <2> DEFINE i == [pk |-> p, row |-> page[p]]
  <2>1. Go(w, "delete", i) /\ page' = page /\ i \in Instance
    BY <1>0, <1>4 DEF DeleteStart, PageOK, Instance
  <2> HIDE DEF i
  <2> QED
    BY <2>1, GoShape DEF PageMove, Labels, Saving
<1>5. ASSUME NEW S \in SUBSET (1 .. MaxPk), ExpungeStart(w, S)
      PROVE  StepShape(w)
  BY <1>5, GoShape, DefaultsOK DEF ExpungeStart, PageMove, Labels, Saving
<1>6. ASSUME NEW p \in 1 .. MaxPk, ExpungeTest(w, p)
      PROVE  StepShape(w)
  <2> DEFINE i == [NoInstance EXCEPT !.pk = p]
  <2>1. i \in Instance
    BY DefaultsOK DEF Instance
  <2>2. /\ pc[w] = "expunge" /\ page' = page
        /\ Go(w, "delete", i) \/ UNCHANGED <<pc, inst>>
    BY <1>6 DEF ExpungeTest
  <2> HIDE DEF i
  <2>3. CASE Go(w, "delete", i)
    BY <2>1, <2>2, <2>3, GoShape DEF PageMove, Labels, Saving
  <2>4. CASE UNCHANGED <<pc, inst>>
    BY <2>2, <2>4 DEF StepShape, PageMove, HeldMove, Saving
  <2> QED
    BY <2>2, <2>3, <2>4
<1>7. CASE ExpungeEnd(w)
  BY <1>7, ReturnShape DEF ExpungeEnd, Leave, PageMove
<1>8. CASE DeletePage(w)
  <2>1. /\ page' = Without({inst[w].pk})
        /\ Return(w) \/ Go(w, "expunge", NoInstance)
    BY <1>8 DEF DeletePage, Delete, Leave
  <2> QED
    BY <2>1, ReturnShape, GoShape, DefaultsOK DEF PageMove, Labels, Saving
<1>9. CASE ResetStart(w)
  <2>1. page' = Without(DOMAIN page) /\ Go(w, "reseed", NoInstance)
    BY <1>9 DEF ResetStart, Delete
  <2> QED
    BY <2>1, GoShape, DefaultsOK DEF PageMove, Labels, Saving
<1>10. CASE ResetFind(w)
  <2>1. page' = page /\ (Return(w) \/ Go(w, "reinsert", NoInstance))
    BY <1>10 DEF ResetFind, Leave
  <2> QED
    BY <2>1, ReturnShape, GoShape, DefaultsOK DEF PageMove, Labels, Saving
<1>11. CASE ResetCreate(w)
  <2>1. Insert(NewRow(Seed)) /\ Return(w)
    BY <1>11 DEF ResetCreate, Leave
  <2> QED
    BY <2>1, ReturnShape, StoreAssumption DEF PageMove
<1> QED
  BY <1>1, <1>2, <1>3, <1>4, <1>5, <1>6, <1>7, <1>8, <1>9, <1>10, <1>11 DEF ViewsStep

\* Every step of a process, its death included.
LEMMA StepHasShape ==
    ASSUME TypeInv, NEW w \in Procs, Step(w)
    PROVE  StepShape(w)
<1>1. CASE CheckStep(w)
  BY <1>1, CheckStepShape
<1>2. CASE ViewsStep(w)
  BY <1>2, ViewsStepShape
<1>3. CASE Abort(w)
  BY <1>3, ReturnShape DEF Abort, Finish, PageMove
<1> QED
  BY <1>1, <1>2, <1>3 DEF Step

-----------------------------------------------------------------------------
(* One page per url *)

\* A key stands for one url: in the table and in every held instance.
OneUrl ==
    /\ \A w \in Procs : pc[w] \in Saving /\ inst[w].pk \in DOMAIN page
         => page[inst[w].pk].url = inst[w].row.url
    /\ \A v, w \in Procs :
         pc[v] \in Saving /\ pc[w] \in Saving /\ inst[v].pk = inst[w].pk
         => inst[v].row.url = inst[w].row.url

KeyInv == UniquePages /\ OneUrl

\* Where the rows of the next table come from.
Origin(w) ==
    \A p \in DOMAIN page' :
        \/ p \in DOMAIN page /\ page'[p] = page[p]
        \/ p = nextPk
        \/ /\ pc[w] \in Saving /\ p = inst[w].pk
           /\ page'[p].url = inst[w].row.url

\* No move of the table makes two pages of one url: an UPDATE keeps the url of
\* its row, and the INSERTs are refused.
LEMMA UniqueStep ==
    ASSUME KeyInv, NEW w \in Procs, PageMove(w)
    PROVE  UniquePages' /\ Origin(w)
<1>1. CASE page' = page
  BY <1>1 DEF KeyInv, UniquePages, Origin
<1>2. ASSUME pc[w] \in Saving, NEW row, SavedRow(w, row), Save(inst[w].pk, row)
      PROVE  UniquePages' /\ Origin(w)
  <2> DEFINE k == inst[w].pk
  <2>1. CASE page' = page
    BY <2>1 DEF KeyInv, UniquePages, Origin
  <2>2. CASE page' = Put(k, row) /\ ~ SaveFails(k, row)
    <3>1. row.url = inst[w].row.url
      BY <1>2 DEF SavedRow
    <3>2. \A p \in DOMAIN page \ {k} : page[p].url # row.url
      <4>1. CASE k \in DOMAIN page
        BY <1>2, <3>1, <4>1 DEF KeyInv, UniquePages, OneUrl
      <4>2. CASE k \notin DOMAIN page
        BY <2>2, <4>2 DEF SaveFails, InsertFails, PagesAt
      <4> QED
        BY <4>1, <4>2
    <3>3. /\ DOMAIN page' = DOMAIN page \cup {k}
          /\ \A p \in DOMAIN page' : page'[p] = IF p = k THEN row ELSE page[p]
      BY <2>2 DEF Put
    <3>4. UniquePages'
      BY <3>2, <3>3 DEF KeyInv, UniquePages
    <3>5. Origin(w)
      BY <1>2, <3>1, <3>3 DEF Origin
    <3> QED
      BY <3>4, <3>5
  <2> QED
    BY <1>2, <2>1, <2>2 DEF Save
<1>3. ASSUME NEW u \in Urls, Insert(NewRow(u))
      PROVE  UniquePages' /\ Origin(w)
  <2>1. CASE page' = page
    BY <2>1 DEF KeyInv, UniquePages, Origin
  <2>2. CASE page' = Put(nextPk, NewRow(u)) /\ ~ InsertFails(u)
    <3>1. \A p \in DOMAIN page : page[p].url # u
      BY <2>2 DEF InsertFails, PagesAt
    <3>2. /\ DOMAIN page' = DOMAIN page \cup {nextPk}
          /\ \A p \in DOMAIN page' : page'[p] = IF p = nextPk THEN NewRow(u) ELSE page[p]
          /\ NewRow(u).url = u
      BY <2>2 DEF Put, NewRow
    <3> QED
      BY <3>1, <3>2 DEF KeyInv, UniquePages, Origin
  <2>3. InsertFails(NewRow(u).url) <=> InsertFails(u)
    BY DEF NewRow
  <2> QED
    BY <1>3, <2>1, <2>2, <2>3 DEF Insert
<1>4. ASSUME NEW S, page' = Without(S)
      PROVE  UniquePages' /\ Origin(w)
  BY <1>4 DEF KeyInv, UniquePages, Origin, Without
<1> QED
  BY <1>1, <1>2, <1>3, <1>4 DEF PageMove

\* The instance w holds after a step has the key and the url of a row of the
\* table, or of the instance it held.
LEMMA HeldOrigin ==
    ASSUME TypeInv, NEW w \in Procs, HeldMove(w), pc'[w] \in Saving
    PROVE  \/ /\ page' = page /\ inst'[w].pk \in DOMAIN page
              /\ inst'[w].row.url = page[inst'[w].pk].url
           \/ /\ pc[w] \in Saving /\ inst'[w].pk = inst[w].pk
              /\ inst'[w].row.url = inst[w].row.url
<1>1. /\ inst[w].row \in Row /\ clock \in Nat
      /\ \A p \in DOMAIN page : page[p] \in Row
  BY StoreAssumption DEF TypeInv, TypeOK, Instance
<1>2. \A r \in Row : /\ Marked(r).url = r.url /\ Answered(r).url = r.url
                     /\ Toggled(r).url = r.url
  BY <1>1, AssignFields
<1> QED
  BY <1>1, <1>2 DEF HeldMove, Saving

\* Steps keep KeyInv.
LEMMA KeyStep ==
    ASSUME TypeInv, KeyInv, NEW w \in Procs, StepShape(w)
    PROVE  KeyInv'
<1>1. UniquePages' /\ Origin(w)
  BY UniqueStep DEF StepShape
<1>2. /\ \A v \in Procs \ {w} : pc'[v] = pc[v] /\ inst'[v] = inst[v]
      /\ HeldMove(w)
  BY DEF StepShape
<1>3. \A v \in Procs : pc[v] \in Saving => inst[v].pk # nextPk
  BY StoreAssumption DEF TypeInv, TypeOK, HeldKeys
<1>4. \A p \in DOMAIN page : p # nextPk
  BY StoreAssumption DEF TypeInv, TypeOK
<1>5. OneUrl /\ UniquePages
  BY DEF KeyInv
<1>6. ASSUME NEW v \in Procs, pc'[v] \in Saving, inst'[v].pk \in DOMAIN page'
      PROVE  page'[inst'[v].pk].url = inst'[v].row.url
  <2>1. CASE v = w
    BY <1>1, <1>2, <1>3, <1>4, <1>5, <1>6, <2>1, HeldOrigin DEF Origin, OneUrl
  <2>2. CASE v # w
    BY <1>1, <1>2, <1>3, <1>5, <1>6, <2>2 DEF Origin, OneUrl
  <2> QED
    BY <2>1, <2>2
<1>7. ASSUME NEW v \in Procs \ {w}, pc'[v] \in Saving, pc'[w] \in Saving,
             inst'[v].pk = inst'[w].pk
      PROVE  inst'[v].row.url = inst'[w].row.url
  <2>1. pc[v] \in Saving /\ inst'[v] = inst[v]
    BY <1>2, <1>7
  <2>2. CASE /\ page' = page /\ inst'[w].pk \in DOMAIN page
             /\ inst'[w].row.url = page[inst'[w].pk].url
    BY <1>5, <1>7, <2>1, <2>2 DEF OneUrl
  <2>3. CASE /\ pc[w] \in Saving /\ inst'[w].pk = inst[w].pk
             /\ inst'[w].row.url = inst[w].row.url
    BY <1>5, <1>7, <2>1, <2>3 DEF OneUrl
  <2> QED
    BY <1>2, <1>7, <2>2, <2>3, HeldOrigin
<1>8. ASSUME NEW u \in Procs, NEW v \in Procs, pc'[u] \in Saving, pc'[v] \in Saving,
             inst'[u].pk = inst'[v].pk
      PROVE  inst'[u].row.url = inst'[v].row.url
  <2>1. CASE u # w /\ v # w
    BY <1>2, <1>5, <1>8, <2>1 DEF OneUrl
  <2>2. CASE u = w \/ v = w
    BY <1>7, <1>8, <2>2
  <2> QED
    BY <2>1, <2>2
<1> QED
  BY <1>1, <1>6, <1>8 DEF KeyInv, OneUrl

\* The only page of a new site.
LEMMA KeyInit == Init => KeyInv
<1> SUFFICES ASSUME Init PROVE KeyInv
  OBVIOUS
<1>1. UniquePages
  BY DEF Init, StoreInit, UniquePages
<1>2. OneUrl
  BY DEF Init, StoreInit, OneUrl, Saving
<1> QED
  BY <1>1, <1>2 DEF KeyInv

\* No two rows of the table page share their url, with any number of processes
\* checking, toggling, deleting and resetting at the same time and saving
\* stale instances, of deleted pages too.
THEOREM PagesUnique == Spec => []UniquePages
<1>1. TypeInv /\ KeyInv /\ [Next]_vars => KeyInv'
  <2> SUFFICES ASSUME TypeInv, KeyInv, [Next]_vars PROVE KeyInv'
    OBVIOUS
  <2>1. CASE Next
    BY <2>1, StepHasShape, KeyStep DEF Next
  <2>2. CASE UNCHANGED vars
    BY <2>2 DEF vars, storeVars, KeyInv, UniquePages, OneUrl
  <2> QED
    BY <2>1, <2>2
<1>2. KeyInv => UniquePages
  BY DEF KeyInv
<1> QED
  BY <1>1, <1>2, TypeInit, TypeStep, KeyInit, PTL DEF Spec

-----------------------------------------------------------------------------
(* What every row says of its checks *)

Agrees(row) == row.is_checked <=> row.checked_at # EPOCH

Explained(row) == row.is_checked /\ ~ is_ok(row) => row.error_message

\* An instance at "head" is marked but not answered yet: it may lack its
\* message, and is not saved as it is.
RowsInv ==
    /\ \A p \in DOMAIN page : Agrees(page[p]) /\ Explained(page[p])
    /\ \A w \in Procs : pc[w] \in Saving => Agrees(inst[w].row)
    /\ \A w \in Procs : pc[w] \in Saving \ {"head"} => Explained(inst[w].row)

\* A row that agrees still does when it is marked, answered or toggled, and a
\* row that was answered, or toggled from an explained one, is explained.
LEMMA AssignRows ==
    ASSUME NEW r \in Row, clock \in Nat
    PROVE  /\ Agrees(Marked(r))
           /\ Agrees(r) => Agrees(Answered(r)) /\ Agrees(Toggled(r))
           /\ Explained(Answered(r))
           /\ Explained(r) => Explained(Toggled(r))
<1>1. Agrees(Marked(r))
  <2>1. Marked(r).is_checked /\ Marked(r).checked_at = clock + 1
    BY AssignFields
  <2>2. clock + 1 # 0
    OBVIOUS
  <2> QED
    BY <2>1, <2>2 DEF Agrees, EPOCH
<1>2. Agrees(r) => Agrees(Answered(r)) /\ Agrees(Toggled(r))
  <2>1. /\ Answered(r).is_checked = r.is_checked
        /\ Answered(r).checked_at = r.checked_at
        /\ Toggled(r).is_checked = r.is_checked
        /\ Toggled(r).checked_at = r.checked_at
    BY AssignFields, Zenon
  <2> QED
    BY <2>1, Zenon DEF Agrees
<1>3. Explained(Answered(r))
  <2>1. is_ok(Answered(r))
    BY AssignFields
  <2> QED
    BY <2>1, Zenon DEF Explained
<1>4. Explained(r) => Explained(Toggled(r))
  <2>1. /\ Toggled(r).is_checked = r.is_checked
        /\ Toggled(r).status = r.status
        /\ Toggled(r).error_message = r.error_message
    BY AssignFields, Zenon
  <2> QED
    BY <2>1, Zenon DEF Explained, is_ok
<1> QED
  BY <1>1, <1>2, <1>3, <1>4

\* A default row is unchecked.
LEMMA NewRowSound == \A u : Agrees(NewRow(u)) /\ Explained(NewRow(u))
BY DEF Agrees, Explained, NewRow, EPOCH

\* Steps keep RowsInv.
LEMMA RowsStep ==
    ASSUME TypeInv, RowsInv, NEW w \in Procs, StepShape(w)
    PROVE  RowsInv'
<1>1. /\ inst[w].row \in Row /\ clock \in Nat
      /\ \A p \in DOMAIN page : page[p] \in Row
  BY StoreAssumption DEF TypeInv, TypeOK, Instance
<1>2. /\ \A v \in Procs \ {w} : pc'[v] = pc[v] /\ inst'[v] = inst[v]
      /\ PageMove(w) /\ HeldMove(w)
  BY DEF StepShape
<1>3. \A p \in DOMAIN page' : Agrees(page'[p]) /\ Explained(page'[p])
  <2>1. CASE page' = page
    BY <2>1 DEF RowsInv
  <2>2. ASSUME pc[w] \in Saving, NEW row, SavedRow(w, row), Save(inst[w].pk, row)
        PROVE  \A p \in DOMAIN page' : Agrees(page'[p]) /\ Explained(page'[p])
    <3>1. Agrees(row)
      <4>1. Agrees(inst[w].row)
        BY <2>2 DEF RowsInv
      <4>2. /\ row.is_checked = inst[w].row.is_checked
            /\ row.checked_at = inst[w].row.checked_at
        BY <2>2, Zenon DEF SavedRow
      <4> QED
        BY <4>1, <4>2, Zenon DEF Agrees
    <3>2. Explained(row)
      <4>1. CASE is_ok(row) \/ row.error_message
        BY <4>1, Zenon DEF Explained
      <4>2. CASE pc[w] = "toggled" /\ row = inst[w].row
        BY <2>2, <4>2 DEF RowsInv
      <4> QED
        BY <2>2, <4>1, <4>2, Zenon DEF SavedRow
    <3>3. page' = page \/ page' = Put(inst[w].pk, row)
      BY <2>2 DEF Save
    <3> QED
      BY <3>1, <3>2, <3>3 DEF RowsInv, Put
  <2>3. ASSUME NEW u \in Urls, Insert(NewRow(u))
        PROVE  \A p \in DOMAIN page' : Agrees(page'[p]) /\ Explained(page'[p])
    <3>1. page' = page \/ page' = Put(nextPk, NewRow(u))
      BY <2>3 DEF Insert
    <3> QED
      BY <3>1, NewRowSound DEF RowsInv, Put
  <2>4. ASSUME NEW S, page' = Without(S)
        PROVE  \A p \in DOMAIN page' : Agrees(page'[p]) /\ Explained(page'[p])
    BY <2>4 DEF RowsInv, Without
  <2> QED
    BY <1>2, <2>1, <2>2, <2>3, <2>4 DEF PageMove
<1>4. pc'[w] \in Saving => Agrees(inst'[w].row)
  BY <1>1, <1>2, AssignRows DEF HeldMove, RowsInv, Saving
<1>5. pc'[w] \in Saving \ {"head"} => Explained(inst'[w].row)
  BY <1>1, <1>2, AssignRows DEF HeldMove, RowsInv, Saving
<1> QED
  BY <1>2, <1>3, <1>4, <1>5 DEF RowsInv

\* The only page of a new site is unchecked.
LEMMA RowsInit == Init => RowsInv
<1> SUFFICES ASSUME Init PROVE RowsInv
  OBVIOUS
<1>1. page = [p \in {1} |-> [NewRow(Seed) EXCEPT !.status = -1]]
  BY DEF Init, StoreInit
<1>2. Agrees([NewRow(Seed) EXCEPT !.status = -1]) /\ Explained([NewRow(Seed) EXCEPT !.status = -1])
  BY DEF Agrees, Explained, NewRow, EPOCH
<1>3. \A p \in DOMAIN page : Agrees(page[p]) /\ Explained(page[p])
  BY <1>1, <1>2
<1>4. \A w \in Procs : pc[w] = "idle"
  BY DEF Init, StoreInit
<1> QED
  BY <1>3, <1>4 DEF RowsInv, Saving

\* RowsInv holds always.
LEMMA RowsAlways == Spec => [](TypeInv /\ RowsInv)
<1>1. TypeInv /\ RowsInv /\ [Next]_vars => RowsInv'
  <2> SUFFICES ASSUME TypeInv, RowsInv, [Next]_vars PROVE RowsInv'
    OBVIOUS
  <2>1. CASE Next
    BY <2>1, StepHasShape, RowsStep DEF Next
  <2>2. CASE UNCHANGED vars
    BY <2>2 DEF vars, storeVars, RowsInv
  <2> QED
    BY <2>1, <2>2
<1> QED
  BY <1>1, TypeInit, TypeStep, RowsInit, PTL DEF Spec

\* checked_at is EPOCH exactly in the rows with is_checked false, whoever saves
\* what at the same time: no save takes one column from one check and the other
\* from another.
THEOREM CheckedAtSound == Spec => []CheckedAtAgrees
<1>1. RowsInv => CheckedAtAgrees
  BY DEF RowsInv, Agrees, CheckedAtAgrees
<1> QED
  BY <1>1, RowsAlways, PTL

\* Every page that pages_with_errors lists has a message, and it lists the
\* checked pages that is_ok rejects: no status between the two readings, 300,
\* is ever stored.
THEOREM ErrorsSound == Spec => []ErrorsExplained
<1>1. TypeInv /\ RowsInv => ErrorsExplained
  <2> SUFFICES ASSUME TypeInv, RowsInv PROVE ErrorsExplained
    OBVIOUS
  <2>1. \A p \in DOMAIN page : page[p].status \in Statuses
    BY DEF TypeInv, TypeOK, Row
  <2>2. \A p \in DOMAIN page :
           (200 <= page[p].status /\ page[p].status <= 300) <=> is_ok(page[p])
    BY <2>1 DEF Statuses, is_ok
  <2>3. PagesWithErrors = {p \in DOMAIN page : page[p].is_checked /\ ~ is_ok(page[p])}
    BY <2>2, Zenon DEF PagesWithErrors
  <2>4. \A p \in PagesWithErrors : page[p].error_message
    BY <2>3, Zenon DEF RowsInv, Explained
  <2> QED
    BY <2>3, <2>4 DEF ErrorsExplained
<1> QED
  BY <1>1, RowsAlways, PTL

-----------------------------------------------------------------------------
(* Links between pages *)

\* The statements that write page, link or both keep both ends of every link.
LEMMA LinksKept ==
    ASSUME NoDanglingLinks,
           \/ DOMAIN page \subseteq DOMAIN page' /\ link' \subseteq link
           \/ \E S : Delete(S)
    PROVE  NoDanglingLinks'
BY DEF NoDanglingLinks, Delete, Without

\* save() and the INSERT only add keys to the table.
LEMMA PagesGrow ==
    ASSUME \/ \E k, row : Save(k, row)
           \/ \E row : Insert(row)
    PROVE  DOMAIN page \subseteq DOMAIN page'
BY DEF Save, Insert, Put

\* Steps keep both ends of every link.
LEMMA LinksStep ==
    ASSUME NoDanglingLinks, NEW w \in Procs, Step(w)
    PROVE  NoDanglingLinks'
<1>1. CASE CheckStep(w)
  <2>1. CASE \/ \E p \in 1 .. MaxPk : CheckStart(w, p)
             \/ HeadNoResponse(w) \/ NotHtml(w) \/ NotLocal(w)
             \/ \E urls \in SUBSET Urls : ReadBody(w, urls)
             \/ \E u \in Urls : FindTarget(w, u)
             \/ RemoveLinks(w)
    <3>1. page' = page /\ link' \subseteq link
      BY <2>1 DEF CheckStart, HeadNoResponse, NotHtml, NotLocal, ReadBody,
                  FindTarget, RemoveLinks
    <3> QED
      BY <3>1, LinksKept
  <2>2. CASE HeadFailure(w) \/ HeadSuccess(w) \/ InvalidHtml(w) \/ CreateTarget(w)
    <3>1. /\ (\E k, row : Save(k, row)) \/ (\E row : Insert(row))
          /\ link' = link
      BY <2>2 DEF HeadFailure, HeadSuccess, InvalidHtml, CreateTarget
    <3> QED
      BY <3>1, LinksKept, PagesGrow
  <2>3. CASE AddLink(w)
    BY <2>3 DEF AddLink, LinkFails, NoDanglingLinks
  <2> QED
    BY <1>1, <2>1, <2>2, <2>3 DEF CheckStep
<1>2. CASE ViewsStep(w)
  <2>1. CASE \/ \E p \in 1 .. MaxPk : ToggleStart(w, p)
             \/ ToggleUnlink(w)
             \/ \E p \in 1 .. MaxPk : DeleteStart(w, p)
             \/ \E S \in SUBSET (1 .. MaxPk) : ExpungeStart(w, S)
             \/ \E p \in 1 .. MaxPk : ExpungeTest(w, p)
             \/ ExpungeEnd(w)
             \/ ResetFind(w)
    <3>1. page' = page /\ link' \subseteq link
      BY <2>1 DEF ToggleStart, ToggleUnlink, DeleteStart, ExpungeStart,
                  ExpungeTest, ExpungeEnd, ResetFind
    <3> QED
      BY <3>1, LinksKept
  <2>2. CASE ToggleSave(w) \/ ResetCreate(w)
    <3>1. /\ (\E k, row : Save(k, row)) \/ (\E row : Insert(row))
          /\ link' = link
      BY <2>2 DEF ToggleSave, ResetCreate
    <3> QED
      BY <3>1, LinksKept, PagesGrow
  <2>3. CASE DeletePage(w) \/ ResetStart(w)
    BY <2>3, LinksKept DEF DeletePage, ResetStart
  <2> QED
    BY <1>2, <2>1, <2>2, <2>3 DEF ViewsStep
<1>3. CASE Abort(w)
  BY <1>3, LinksKept DEF Abort
<1> QED
  BY <1>1, <1>2, <1>3 DEF Step

\* Both ends of every link are pages of the site: no check adds a link from or
\* to a page that was deleted while it ran.
THEOREM LinksHaveEnds == Spec => []NoDanglingLinks
<1>1. Init => NoDanglingLinks
  BY DEF Init, StoreInit, NoDanglingLinks
<1>2. NoDanglingLinks /\ [Next]_vars => NoDanglingLinks'
  <2> SUFFICES ASSUME NoDanglingLinks, [Next]_vars PROVE NoDanglingLinks'
    OBVIOUS
  <2>1. CASE Next
    BY <2>1, LinksStep DEF Next
  <2>2. CASE UNCHANGED vars
    BY <2>2 DEF vars, storeVars, NoDanglingLinks
  <2> QED
    BY <2>1, <2>2
<1> QED
  BY <1>1, <1>2, PTL DEF Spec

-----------------------------------------------------------------------------
(* LinksMatchBody: an update of links that nobody disturbs ends with exactly *)
(* the links of the body. The loop invariant of _update_links relates the    *)
(* table link to the locals of the loop. It holds only while quiet does:     *)
(* whoever writes in between breaks it, and quiet with it.                   *)


\* What the links that leave k lead to.
Targets(k) == {l[2] : l \in {m \in link : m[1] = k}}

\* The url whose page has been looked up, and not linked yet.
Pending(w) == IF pc[w] = "insert" THEN {upd[w].want}
              ELSE IF pc[w] = "link" THEN {page[upd[w].target].url}
              ELSE {}

\* The urls of the body that the loop is through with.
Through(w) == upd[w].body \ (upd[w].todo \cup Pending(w))

LoopInv(w) ==
    /\ upd[w].todo \subseteq upd[w].body
    /\ Pending(w) \subseteq upd[w].body \ upd[w].todo
    /\ pc[w] = "link" => /\ upd[w].target \in DOMAIN page
                         /\ page[upd[w].target].is_linkable
    /\ \A u \in Through(w) : \E q \in DOMAIN page : page[q].url = u
    /\ upd[w].after = {q \in DOMAIN page :
                          page[q].url \in Through(w) /\ page[q].is_linkable}
    /\ Targets(inst[w].pk) = upd[w].before \cup upd[w].after

Looping == {"links", "insert", "link"}

QuietInv == \A w \in Procs : quiet[w] /\ pc[w] \in Looping => LoopInv(w)

\* The invariants that the loop relies on.
SoundInv == TypeInv /\ KeyInv /\ NoDanglingLinks

-----------------------------------------------------------------------------
\* A step of w writes the locals of w only.
LEMMA FramesApart ==
    ASSUME TypeInv, NEW w \in Procs, Step(w), Observe(w), NEW v \in Procs \ {w}
    PROVE  /\ upd'[v] = upd[v] /\ pc'[v] = pc[v] /\ inst'[v] = inst[v]
           /\ quiet'[v] => quiet[v] /\ page' = page /\ link' = link
<1>1. upd \in [Procs -> Frame]
  BY DEF TypeInv, TypeOK
<1>2. upd'[v] = upd[v]
  <2>1. CASE CheckStep(w)
    BY <1>1, <2>1 DEF CheckStep, CheckStart, HeadFailure, HeadNoResponse, HeadSuccess,
            NotHtml, NotLocal, InvalidHtml, ReadBody, FindTarget, CreateTarget, AddLink,
            RemoveLinks, Finish
  <2>2. CASE ViewsStep(w) /\ UNCHANGED upd
    BY <2>2
  <2>3. CASE Abort(w)
    BY <1>1, <2>3 DEF Abort, Finish
  <2> QED
    BY <2>1, <2>2, <2>3 DEF Step
<1>3. pc'[v] = pc[v] /\ inst'[v] = inst[v]
  BY StepHasShape DEF StepShape
<1>4. quiet'[v] => quiet[v] /\ page' = page /\ link' = link
  BY DEF Observe
<1> QED
  BY <1>2, <1>3, <1>4

\* The steps that keep w in the loop.
LEMMA LoopSteps ==
    ASSUME TypeInv, NEW w \in Procs, Step(w), pc'[w] \in Looping
    PROVE  \/ \E urls \in SUBSET Urls : ReadBody(w, urls)
           \/ \E u \in Urls : FindTarget(w, u)
           \/ CreateTarget(w)
           \/ AddLink(w)
<1>1. ProcOK
  BY DEF TypeInv, TypeOK, ProcOK
<1>2. ~ Return(w)
  BY <1>1, ReturnOK DEF Looping
<1>3. \A l, i : Go(w, l, i) => l \in Looping
  BY <1>1 DEF Go, ProcOK
<1>4. CASE CheckStep(w)
  <2>1. ASSUME NEW p \in 1 .. MaxPk PROVE ~ CheckStart(w, p)
    BY <1>3 DEF CheckStart, Looping
  <2>2. ~ HeadSuccess(w)
    BY <1>2, <1>3 DEF HeadSuccess, Finish, Looping
  <2>3. ~ (HeadFailure(w) \/ HeadNoResponse(w) \/ NotHtml(w) \/ NotLocal(w)
           \/ InvalidHtml(w) \/ RemoveLinks(w))
    BY <1>2 DEF HeadFailure, HeadNoResponse, NotHtml, NotLocal, InvalidHtml,
                RemoveLinks, Finish
  <2> QED
    BY <1>4, <2>1, <2>2, <2>3 DEF CheckStep
<1>5. CASE ViewsStep(w)
  <2>1. ASSUME NEW p \in 1 .. MaxPk PROVE ~ ExpungeTest(w, p) /\ ~ DeleteStart(w, p)
    BY <1>3 DEF ExpungeTest, DeleteStart, Looping
  <2>2. ASSUME NEW p \in 1 .. MaxPk PROVE ~ ToggleStart(w, p)
    BY <1>3 DEF ToggleStart, Looping
  <2>3. ASSUME NEW S \in SUBSET (1 .. MaxPk) PROVE ~ ExpungeStart(w, S)
    BY <1>3 DEF ExpungeStart, Looping
  <2>4. ~ (ToggleUnlink(w) \/ DeletePage(w) \/ ResetStart(w) \/ ResetFind(w))
    BY <1>2, <1>3 DEF ToggleUnlink, DeletePage, ResetStart, ResetFind, Leave, Looping
  <2>5. ~ (ToggleSave(w) \/ ExpungeEnd(w) \/ ResetCreate(w))
    BY <1>2 DEF ToggleSave, ExpungeEnd, ResetCreate, Leave
  <2> QED
    BY <1>5, <2>1, <2>2, <2>3, <2>4, <2>5 DEF ViewsStep
<1>6. CASE Abort(w)
  BY <1>2, <1>6 DEF Abort, Finish
<1> QED
  BY <1>4, <1>5, <1>6 DEF Step

\* A turn of the loop that only looks a url up.
LEMMA LooksUp ==
    ASSUME NEW w \in Procs, LoopInv(w), page' = page, link' = link, inst'[w] = inst[w],
           upd'[w].body = upd[w].body, upd'[w].todo \subseteq upd[w].todo,
           upd'[w].before = upd[w].before, upd'[w].after = upd[w].after,
           Through(w)' = Through(w), Pending(w)' \subseteq upd[w].body \ upd'[w].todo,
           pc'[w] = "link" => /\ upd'[w].target \in DOMAIN page
                              /\ page[upd'[w].target].is_linkable
    PROVE  LoopInv(w)'
<1>1. Targets(inst[w].pk)' = Targets(inst[w].pk)
  BY DEF Targets
<1> QED
  BY <1>1 DEF LoopInv

\* The loop of w goes on.
LEMMA LoopGoesOn ==
    ASSUME SoundInv, NEW w \in Procs, Step(w), pc'[w] \in Looping,
           pc[w] \in Looping => LoopInv(w)
    PROVE  LoopInv(w)'
<1> DEFINE k == inst[w].pk
<1>0. /\ ProcOK /\ upd \in [Procs -> Frame] /\ upd[w] \in Frame
      /\ inst[w] \in Instance /\ nextPk \notin DOMAIN page
      /\ UniquePages /\ NoDanglingLinks
  BY StoreAssumption DEF SoundInv, KeyInv, TypeInv, TypeOK, ProcOK
<1>1. ASSUME NEW urls \in SUBSET Urls, ReadBody(w, urls)
      PROVE  LoopInv(w)'
  <2>1. /\ Go(w, "links", inst[w]) /\ page' = page /\ link' = link
        /\ upd'[w] = [NoFrame EXCEPT !.body = urls, !.todo = urls,
                                     !.before = OutgoingLinks(k)]
    BY <1>0, <1>1 DEF ReadBody
  <2>2. pc'[w] = "links" /\ inst'[w] = inst[w]
    BY <1>0, <2>1, GoOK DEF Labels
  <2>3. /\ upd'[w].body = urls /\ upd'[w].todo = urls
        /\ upd'[w].before = OutgoingLinks(k) /\ upd'[w].after = {}
    BY <2>1 DEF NoFrame
  <2>4. Targets(k) = OutgoingLinks(k)
    <3>1. link \subseteq Nat \X Nat
      BY DEF SoundInv, TypeInv, TypeOK
    <3>2. \A l \in link : l = <<l[1], l[2]>>
      BY <3>1
    <3> QED
      BY <1>0, <3>2 DEF Targets, OutgoingLinks, NoDanglingLinks
  <2> QED
    BY <2>1, <2>2, <2>3, <2>4 DEF LoopInv, Through, Pending, Targets
<1>2. ASSUME NEW u \in Urls, FindTarget(w, u)
      PROVE  LoopInv(w)'
  <2>0. /\ pc[w] = "links" /\ u \in upd[w].todo /\ page' = page /\ link' = link
        /\ LoopInv(w)
    BY <1>2 DEF FindTarget, Looping
  <2>1. ASSUME NEW q \in PagesAt(u), page[q].is_linkable, Go(w, "link", inst[w]),
               upd' = [upd EXCEPT ![w].todo = @ \ {u}, ![w].target = q]
        PROVE  LoopInv(w)'
    <3>1. pc'[w] = "link" /\ inst'[w] = inst[w]
      BY <1>0, <2>1, GoOK DEF Labels
    <3>2. /\ upd'[w].body = upd[w].body /\ upd'[w].todo = upd[w].todo \ {u}
          /\ upd'[w].before = upd[w].before /\ upd'[w].after = upd[w].after
          /\ upd'[w].target = q
      BY <1>0, <2>1 DEF Frame
    <3>3. q \in DOMAIN page /\ page[q].url = u
      BY DEF PagesAt
    <3>4. Pending(w)' = {u} /\ Pending(w) = {}
      BY <2>0, <3>1, <3>2, <3>3 DEF Pending
    <3>5. Through(w)' = Through(w)
      BY <2>0, <3>2, <3>4 DEF Through
    <3>6. u \in upd[w].body \ upd'[w].todo
      BY <2>0, <3>2 DEF LoopInv
    <3> QED
      BY <2>0, <2>1, <3>1, <3>2, <3>3, <3>4, <3>5, <3>6, LooksUp
  <2>2. ASSUME NEW q \in PagesAt(u), ~ page[q].is_linkable, Go(w, "links", inst[w]),
               upd' = [upd EXCEPT ![w].todo = @ \ {u}]
        PROVE  LoopInv(w)'
    <3>1. pc'[w] = "links" /\ inst'[w] = inst[w]
      BY <1>0, <2>2, GoOK DEF Labels
    <3>2. /\ upd'[w].body = upd[w].body /\ upd'[w].todo = upd[w].todo \ {u}
          /\ upd'[w].before = upd[w].before /\ upd'[w].after = upd[w].after
      BY <1>0, <2>2 DEF Frame
    <3>3. q \in DOMAIN page /\ page[q].url = u
      BY DEF PagesAt
    <3>4. Pending(w)' = {} /\ Pending(w) = {}
      BY <2>0, <3>1 DEF Pending
    <3>5. Through(w)' = Through(w) \cup {u}
      BY <2>0, <3>2, <3>4 DEF Through, LoopInv
    <3>6. \A p \in DOMAIN page : page[p].url = u => ~ page[p].is_linkable
      BY <1>0, <2>2, <3>3 DEF UniquePages
    <3> QED
      BY <2>0, <3>1, <3>2, <3>3, <3>4, <3>5, <3>6 DEF LoopInv, Targets
  <2>3. ASSUME Go(w, "insert", inst[w]),
               upd' = [upd EXCEPT ![w].todo = @ \ {u}, ![w].want = u]
        PROVE  LoopInv(w)'
    <3>1. pc'[w] = "insert" /\ inst'[w] = inst[w]
      BY <1>0, <2>3, GoOK DEF Labels
    <3>2. /\ upd'[w].body = upd[w].body /\ upd'[w].todo = upd[w].todo \ {u}
          /\ upd'[w].before = upd[w].before /\ upd'[w].after = upd[w].after
          /\ upd'[w].want = u
      BY <1>0, <2>3 DEF Frame
    <3>3. Pending(w)' = {u} /\ Pending(w) = {}
      BY <2>0, <3>1, <3>2 DEF Pending
    <3>4. Through(w)' = Through(w)
      BY <2>0, <3>2, <3>3 DEF Through
    <3>5. u \in upd[w].body \ upd'[w].todo
      BY <2>0, <3>2 DEF LoopInv
    <3> QED
      BY <2>0, <3>1, <3>2, <3>3, <3>4, <3>5, LooksUp
  <2> QED
    BY <1>2, <2>1, <2>2, <2>3 DEF FindTarget
<1>3. CASE CreateTarget(w)
  <2> DEFINE u == upd[w].want
  <2>0. /\ pc[w] = "insert" /\ Insert(NewRow(u)) /\ link' = link /\ LoopInv(w)
        /\ ~ InsertFails(u) /\ Go(w, "link", inst[w])
        /\ upd' = [upd EXCEPT ![w].target = nextPk]
    <3>1. ~ Return(w)
      BY <1>0, ReturnOK DEF Looping
    <3> QED
      BY <1>3, <3>1 DEF CreateTarget, Finish, Looping
  <2>1. pc'[w] = "link" /\ inst'[w] = inst[w]
    BY <1>0, <2>0, GoOK DEF Labels
  <2>2. /\ upd'[w].body = upd[w].body /\ upd'[w].todo = upd[w].todo
        /\ upd'[w].before = upd[w].before /\ upd'[w].after = upd[w].after
        /\ upd'[w].target = nextPk
    BY <1>0, <2>0 DEF Frame
  <2>3. NewRow(u).url = u /\ NewRow(u).is_linkable
    BY DEF NewRow
  <2>4. /\ DOMAIN page' = DOMAIN page \cup {nextPk} /\ page'[nextPk] = NewRow(u)
        /\ \A p \in DOMAIN page : page'[p] = page[p]
    BY <1>0, <2>0, <2>3 DEF Insert, Put
  <2>5. Pending(w)' = {u} /\ Pending(w) = {u}
    BY <2>0, <2>1, <2>2, <2>3, <2>4 DEF Pending
  <2>6. Through(w)' = Through(w) /\ u \notin Through(w)
    BY <2>2, <2>5 DEF Through
  <2> QED
    BY <2>0, <2>1, <2>2, <2>3, <2>4, <2>5, <2>6 DEF LoopInv, Targets
<1>4. CASE AddLink(w)
  <2> DEFINE t == upd[w].target
  <2>0. /\ pc[w] = "link" /\ page' = page /\ LoopInv(w)
        /\ link' = link \cup {<<k, t>>} /\ Go(w, "links", inst[w])
        /\ upd' = [upd EXCEPT ![w].after = @ \cup {t}]
    <3>1. ~ Return(w)
      BY <1>0, ReturnOK DEF Looping
    <3> QED
      BY <1>4, <3>1 DEF AddLink, Finish, Looping
  <2>1. pc'[w] = "links" /\ inst'[w] = inst[w]
    BY <1>0, <2>0, GoOK DEF Labels
  <2>2. /\ upd'[w].body = upd[w].body /\ upd'[w].todo = upd[w].todo
        /\ upd'[w].before = upd[w].before /\ upd'[w].after = upd[w].after \cup {t}
    BY <1>0, <2>0 DEF Frame
  <2>3. Pending(w)' = {} /\ Pending(w) = {page[t].url}
    BY <2>0, <2>1 DEF Pending
  <2>4. Through(w)' = Through(w) \cup {page[t].url}
    BY <2>0, <2>2, <2>3 DEF Through, LoopInv
  <2>5. \A q \in DOMAIN page : page[q].url = page[t].url <=> q = t
    BY <1>0, <2>0 DEF UniquePages, LoopInv
  <2>6. Targets(k)' = Targets(k) \cup {t}
    <3>1. <<k, t>>[1] = k /\ <<k, t>>[2] = t
      OBVIOUS
    <3> QED
      BY <2>0, <2>1, <3>1 DEF Targets
  <2> QED
    BY <2>0, <2>1, <2>2, <2>3, <2>4, <2>5, <2>6 DEF LoopInv
<1> QED
  BY <1>1, <1>2, <1>3, <1>4, LoopSteps DEF SoundInv

\* Steps keep QuietInv.
LEMMA QuietStep ==
    ASSUME SoundInv, QuietInv, NEW w \in Procs, Step(w), Observe(w)
    PROVE  QuietInv'
<1> SUFFICES ASSUME NEW v \in Procs, quiet'[v], pc'[v] \in Looping
             PROVE  LoopInv(v)'
  BY DEF QuietInv
<1>0. TypeInv
  BY DEF SoundInv
<1>1. CASE v # w
  <2>1. /\ upd'[v] = upd[v] /\ pc'[v] = pc[v] /\ inst'[v] = inst[v]
        /\ quiet[v] /\ page' = page /\ link' = link
    BY <1>0, <1>1, FramesApart
  <2>2. LoopInv(v)
    BY <2>1 DEF QuietInv
  <2>3. Pending(v)' = Pending(v) /\ Through(v)' = Through(v)
    BY <2>1 DEF Through, Pending
  <2>4. \A k : Targets(k)' = Targets(k)
    BY <2>1 DEF Targets
  <2> QED
    BY <2>1, <2>2, <2>3, <2>4 DEF LoopInv
<1>2. CASE v = w
  <2>1. pc[w] = "saved" \/ quiet[w]
    BY <1>2 DEF Observe
  <2>2. pc[w] \in Looping => LoopInv(w)
    BY <2>1 DEF QuietInv, Looping
  <2> QED
    BY <1>2, <2>2, LoopGoesOn
<1> QED
  BY <1>1, <1>2

\* The end of the loop.
LEMMA LoopEnds ==
    ASSUME SoundInv, NEW w \in Procs, RemoveLinks(w), LoopInv(w)
    PROVE  /\ \A u \in upd[w].body : \E q \in DOMAIN page' : page'[q].url = u
           /\ {l[2] : l \in {m \in link' : m[1] = inst[w].pk}}
                = {q \in DOMAIN page' :
                     page'[q].url \in upd[w].body /\ page'[q].is_linkable}
<1> DEFINE k == inst[w].pk
<1>1. /\ pc[w] = "links" /\ upd[w].todo = {} /\ page' = page
      /\ link' = link \ {<<k, q>> : q \in upd[w].before \ upd[w].after}
  BY DEF RemoveLinks
<1>2. Through(w) = upd[w].body
  BY <1>1 DEF Through, Pending
<1>3. \A l \in link : l = <<l[1], l[2]>>
  <2>1. link \subseteq Nat \X Nat
    BY DEF SoundInv, TypeInv, TypeOK
  <2> QED
    BY <2>1
<1>4. {l[2] : l \in {m \in link' : m[1] = k}}
        = {l[2] : l \in {m \in link : m[1] = k}} \ (upd[w].before \ upd[w].after)
  BY <1>1, <1>3
<1>5. /\ {l[2] : l \in {m \in link : m[1] = k}} = upd[w].before \cup upd[w].after
      /\ upd[w].after = {q \in DOMAIN page :
                            page[q].url \in upd[w].body /\ page[q].is_linkable}
      /\ \A u \in upd[w].body : \E q \in DOMAIN page : page[q].url = u
  BY <1>2 DEF LoopInv, Targets
<1>6. {l[2] : l \in {m \in link' : m[1] = k}} = upd[w].after
  BY <1>4, <1>5
<1> QED
  BY <1>1, <1>5, <1>6

\* _update_links leaves the links of the body it read, whatever other processes
\* had left in the tables before, unless one of them writes while it runs.
THEOREM LinksExact == Spec => LinksMatchBody
<1> DEFINE A == \A w \in Procs : RemoveLinks(w) /\ quiet[w] =>
                  LET from == inst[w].pk
                      urls == upd[w].body
                  IN  /\ \A u \in urls : \E q \in DOMAIN page' : page'[q].url = u
                      /\ {l[2] : l \in {m \in link' : m[1] = from}}
                           = {q \in DOMAIN page' :
                                page'[q].url \in urls /\ page'[q].is_linkable}
<1>1. Init => QuietInv
  BY DEF Init, QuietInv
<1>2. SoundInv /\ QuietInv /\ [Next]_vars => QuietInv'
  <2> SUFFICES ASSUME SoundInv, QuietInv, [Next]_vars PROVE QuietInv'
    OBVIOUS
  <2>1. CASE Next
    BY <2>1, QuietStep DEF Next
  <2>2. CASE UNCHANGED vars
    BY <2>2 DEF vars, storeVars, QuietInv, LoopInv, Through, Pending, Targets
  <2> QED
    BY <2>1, <2>2
<1>3. SoundInv /\ QuietInv => [A]_vars
  BY LoopEnds DEF QuietInv, RemoveLinks, Looping
<1>4. TypeInv /\ KeyInv /\ [Next]_vars => KeyInv'
  <2> SUFFICES ASSUME TypeInv, KeyInv, [Next]_vars PROVE KeyInv'
    OBVIOUS
  <2>1. CASE Next
    BY <2>1, StepHasShape, KeyStep DEF Next
  <2>2. CASE UNCHANGED vars
    BY <2>2 DEF vars, storeVars, KeyInv, UniquePages, OneUrl
  <2> QED
    BY <2>1, <2>2
<1>5. SoundInv <=> TypeInv /\ KeyInv /\ NoDanglingLinks
  BY DEF SoundInv
<1> QED
  BY <1>1, <1>2, <1>3, <1>4, <1>5, TypeInit, TypeStep, KeyInit, LinksHaveEnds, PTL
     DEF Spec, LinksMatchBody

-----------------------------------------------------------------------------
(* A single process: what holds as long as operations do not overlap, cut   *)
(* short at any statement. An instance is then never stale: the invariant   *)
(* relates the one held at each statement to the row it was loaded from.    *)
(* From it, every step has one of nine effects on the tables (Effect), and  *)
(* what is proved of steps is proved of those.                              *)

\* Operations do not overlap: there is one process at most.
Alone == \A v, w \in Procs : v = w

-----------------------------------------------------------------------------
(* The inductive invariant *)

\* No row was checked in the future.
TimesInv == \A p \in DOMAIN page : page[p].checked_at <= clock

\* The row that check_page has marked: a newer attempt on the same page.
MarkedFrom(new, old) ==
    /\ new.is_checked
    /\ new.url = old.url
    /\ new.is_linkable = old.is_linkable
    /\ old.checked_at <= new.checked_at

\* What w holds is what the tables say, as far as the next statement needs.
HeldAlone(w) ==
    LET k == inst[w].pk IN
    /\ pc[w] \in Saving \cup {"links", "insert", "link"} => k \in DOMAIN page
    /\ pc[w] \in Saving => inst[w].row.checked_at <= clock
    /\ pc[w] = "head" => MarkedFrom(inst[w].row, page[k])
    /\ pc[w] = "saved" => inst[w].row = page[k] /\ page[k].is_checked
    /\ pc[w] \in {"unlink", "toggled"} => inst[w].row = Toggled(page[k])
    /\ pc[w] = "unlink" => ~ inst[w].row.is_linkable
    /\ pc[w] = "toggled" =>
         inst[w].row.is_linkable \/ \A l \in link : l[2] # k
    /\ pc[w] = "link" => /\ upd[w].target \in DOMAIN page
                         /\ page[upd[w].target].is_linkable
    /\ pc[w] = "delete" => IncomingLinks(k) = {}

AloneInv ==
    /\ TypeInv /\ KeyInv /\ RowsInv /\ NoDanglingLinks
    /\ LinkableRespected
    /\ TimesInv
    /\ \A w \in Procs : HeldAlone(w)

-----------------------------------------------------------------------------
(* What a step does to the tables *)

TablesStay ==
    /\ DOMAIN page' = DOMAIN page
    /\ \A p \in DOMAIN page : page'[p] = page[p]
    /\ link' = link

Rewrite(k, row) ==
    /\ k \in DOMAIN page /\ row \in Row
    /\ page' = Put(k, row)
    /\ link' = link

\* A page is tried.
AttemptRow(k, row) == Rewrite(k, row) /\ MarkedFrom(row, page[k]) /\ row.checked_at <= clock

\* is_linkable is toggled, and no link is left to a page that loses it.
FlipRow(k) ==
    /\ k \in DOMAIN page
    /\ Rewrite(k, Toggled(page[k]))
    /\ page[k].is_linkable => \A l \in link : l[2] # k

\* A new url gets the next key.
NewPage(u) ==
    /\ PagesAt(u) = {}
    /\ page' = Put(nextPk, NewRow(u))
    /\ link' = link

\* Links from k go.
LinksFromGo(k) ==
    /\ k \in DOMAIN page /\ page' = page
    /\ link' \subseteq link /\ \A l \in link \ link' : l[1] = k

\* All links to k go.
LinksToGo(k) ==
    /\ k \in DOMAIN page /\ page' = page
    /\ link' = {l \in link : l[2] # k}

\* A page gets a link to a page that wants it.
NewLink(k, q) ==
    /\ k \in DOMAIN page /\ q \in DOMAIN page /\ page[q].is_linkable
    /\ page' = page
    /\ link' = link \cup {<<k, q>>}

\* A page without incoming links goes.
OrphanGoes(k) ==
    /\ k \in DOMAIN page /\ IncomingLinks(k) = {}
    /\ Delete({k})

Effect(w) ==
    \/ TablesStay
    \/ \E k, row : AttemptRow(k, row)
    \/ \E k : FlipRow(k)
    \/ \E u \in Urls : NewPage(u)
    \/ \E k : LinksFromGo(k)
    \/ \E k : LinksToGo(k)
    \/ \E k, q : NewLink(k, q)
    \/ \E k : OrphanGoes(k)
    \/ ResetStart(w) /\ Delete(DOMAIN page)
-----------------------------------------------------------------------------
(* Every step has one of the effects *)

\* is_linkable after the assignments to an instance.
LEMMA AssignLinkable ==
    ASSUME NEW r \in Row
    PROVE  /\ Marked(r).is_linkable = r.is_linkable
           /\ Answered(r).is_linkable = r.is_linkable
           /\ Toggled(r).is_linkable = ~ r.is_linkable
           /\ \A c \in Statuses : Broken(r, c).is_linkable = r.is_linkable
<1>1. Marked(r).is_linkable = r.is_linkable
  BY DEF Row, Marked
<1>2. Answered(r).is_linkable = r.is_linkable
  BY DEF Row, Answered
<1>3. Toggled(r).is_linkable = ~ r.is_linkable
  BY DEF Row, Toggled
<1>4. \A c \in Statuses : Broken(r, c).is_linkable = r.is_linkable
  BY DEF Row, Broken
<1> QED
  BY <1>1, <1>2, <1>3, <1>4

\* The save of an instance of a row that is there is an UPDATE.
LEMMA SaveUpdates ==
    ASSUME NEW k \in DOMAIN page, NEW row \in Row, Save(k, row), link' = link
    PROVE  Rewrite(k, row)
BY DEF Save, SaveFails, Rewrite

\* Nothing is written.
LEMMA NothingWritten ==
    ASSUME page' = page, link' = link
    PROVE  TablesStay
BY DEF TablesStay

\* The steps of check_page and _update_links.
LEMMA CheckEffect ==
    ASSUME AloneInv, NEW w \in Procs, CheckStep(w)
    PROVE  Effect(w)
<1> DEFINE k == inst[w].pk
<1> DEFINE r == inst[w].row
<1>0. /\ HeldAlone(w) /\ clock \in Nat /\ r \in Row /\ upd[w] \in Frame
      /\ \A p \in DOMAIN page : page[p] \in Row
  BY StoreAssumption DEF AloneInv, TypeInv, TypeOK, Instance
<1>1. CASE \/ \E p \in 1 .. MaxPk : CheckStart(w, p)
           \/ HeadNoResponse(w) \/ NotHtml(w)
           \/ \E urls \in SUBSET Urls : ReadBody(w, urls)
           \/ \E u \in Urls : FindTarget(w, u)
  <2>1. page' = page /\ link' = link
    BY <1>1 DEF CheckStart, HeadNoResponse, NotHtml, ReadBody, FindTarget
  <2> QED
    BY <2>1, NothingWritten DEF Effect
<1>2. ASSUME k \in DOMAIN page, NEW row \in Row, Save(k, row), link' = link,
             MarkedFrom(row, page[k]), row.checked_at <= clock
      PROVE  Effect(w)
  BY <1>2, SaveUpdates DEF Effect, AttemptRow
<1>3. CASE HeadFailure(w)
  <2>1. pc[w] = "head" /\ Save(k, Broken(r, -1)) /\ link' = link
    BY <1>3 DEF HeadFailure
  <2>2. k \in DOMAIN page /\ MarkedFrom(r, page[k]) /\ r.checked_at <= clock
    BY <1>0, <2>1 DEF HeldAlone, Saving
  <2>3. Broken(r, -1) \in Row /\ MarkedFrom(Broken(r, -1), page[k])
        /\ Broken(r, -1).checked_at = r.checked_at
    <3>1. -1 \in Statuses
      BY DEF Statuses
    <3> QED
      BY <1>0, <2>2, <3>1, AssignOK, AssignFields, AssignLinkable DEF MarkedFrom
  <2> QED
    BY <1>2, <2>1, <2>2, <2>3
<1>4. CASE HeadSuccess(w)
  <2>1. pc[w] = "head" /\ Save(k, Answered(r)) /\ link' = link
    BY <1>0, <1>4 DEF HeadSuccess, AloneInv, TypeInv, TypeOK, Instance
  <2>2. k \in DOMAIN page /\ MarkedFrom(r, page[k]) /\ r.checked_at <= clock
    BY <1>0, <2>1 DEF HeldAlone, Saving
  <2>3. Answered(r) \in Row /\ MarkedFrom(Answered(r), page[k])
        /\ Answered(r).checked_at = r.checked_at
    BY <1>0, <2>2, AssignOK, AssignFields, AssignLinkable DEF MarkedFrom
  <2> QED
    BY <1>2, <2>1, <2>2, <2>3
<1>5. CASE InvalidHtml(w)
  <2>1. pc[w] = "saved" /\ Save(k, Broken(r, 418)) /\ link' = link
    BY <1>5 DEF InvalidHtml
  <2>2. k \in DOMAIN page /\ r = page[k] /\ r.is_checked /\ r.checked_at <= clock
    BY <1>0, <2>1 DEF HeldAlone, Saving
  <2>3. r.checked_at \in Nat
    BY <1>0 DEF Row
  <2>4. Broken(r, 418) \in Row /\ MarkedFrom(Broken(r, 418), page[k])
        /\ Broken(r, 418).checked_at = r.checked_at
    <3>1. 418 \in Statuses
      BY DEF Statuses
    <3> QED
      BY <1>0, <2>2, <2>3, <3>1, AssignOK, AssignFields, AssignLinkable DEF MarkedFrom
  <2> QED
    BY <1>2, <2>1, <2>2, <2>4
<1>6. CASE NotLocal(w) \/ RemoveLinks(w)
  <2>1. /\ pc[w] \in {"saved", "links"} /\ page' = page
        /\ link' \subseteq link /\ \A l \in link \ link' : l[1] = k
    BY <1>6 DEF NotLocal, RemoveLinks
  <2>2. k \in DOMAIN page
    BY <1>0, <2>1 DEF HeldAlone, Saving
  <2> QED
    BY <2>1, <2>2 DEF Effect, LinksFromGo
<1>7. CASE CreateTarget(w)
  <2> DEFINE u == upd[w].want
  <2>1. u \in Urls /\ Insert(NewRow(u)) /\ link' = link
    BY <1>0, <1>7 DEF CreateTarget, Frame
  <2>2. NewRow(u).url = u
    BY DEF NewRow
  <2>3. CASE PagesAt(u) = {}
    BY <2>1, <2>2, <2>3 DEF Insert, InsertFails, NewPage, Effect
  <2>4. CASE PagesAt(u) # {}
    BY <2>1, <2>2, <2>4, NothingWritten DEF Insert, InsertFails, Effect
  <2> QED
    BY <2>3, <2>4
<1>8. CASE AddLink(w)
  <2> DEFINE q == upd[w].target
  <2>1. pc[w] = "link" /\ page' = page
    BY <1>8 DEF AddLink
  <2>2. k \in DOMAIN page /\ q \in DOMAIN page /\ page[q].is_linkable
    BY <1>0, <2>1 DEF HeldAlone
  <2>3. link' = link \/ link' = link \cup {<<k, q>>}
    BY <1>8 DEF AddLink
  <2> QED
    BY <2>1, <2>2, <2>3, NothingWritten DEF Effect, NewLink
<1> QED
  BY <1>1, <1>3, <1>4, <1>5, <1>6, <1>7, <1>8 DEF CheckStep

\* The steps of the views and of reset_site.
LEMMA ViewsEffect ==
    ASSUME AloneInv, NEW w \in Procs, ViewsStep(w)
    PROVE  Effect(w)
<1> DEFINE k == inst[w].pk
<1>0. /\ HeldAlone(w) /\ NoDanglingLinks
      /\ \A p \in DOMAIN page : page[p] \in Row
  BY DEF AloneInv, TypeInv, TypeOK
<1>1. CASE \/ \E p \in 1 .. MaxPk : ToggleStart(w, p)
           \/ \E p \in 1 .. MaxPk : DeleteStart(w, p)
           \/ \E S \in SUBSET (1 .. MaxPk) : ExpungeStart(w, S)
           \/ \E p \in 1 .. MaxPk : ExpungeTest(w, p)
           \/ ExpungeEnd(w) \/ ResetFind(w)
  <2>1. page' = page /\ link' = link
    BY <1>1 DEF ToggleStart, DeleteStart, ExpungeStart, ExpungeTest, ExpungeEnd, ResetFind
  <2> QED
    BY <2>1, NothingWritten DEF Effect
<1>2. CASE ToggleUnlink(w)
  BY <1>0, <1>2 DEF ToggleUnlink, HeldAlone, Saving, Effect, LinksToGo
<1>3. CASE ToggleSave(w)
  <2>1. pc[w] = "toggled" /\ Save(k, inst[w].row) /\ link' = link
    BY <1>3 DEF ToggleSave
  <2>2. /\ k \in DOMAIN page /\ inst[w].row = Toggled(page[k])
        /\ inst[w].row.is_linkable \/ \A l \in link : l[2] # k
    BY <1>0, <2>1 DEF HeldAlone, Saving
  <2>3. Toggled(page[k]) \in Row /\ Toggled(page[k]).is_linkable = ~ page[k].is_linkable
    <3>1. clock \in Nat
      BY StoreAssumption DEF AloneInv, TypeInv, TypeOK
    <3> QED
      BY <1>0, <2>2, <3>1, AssignOK, AssignLinkable
  <2>4. Rewrite(k, Toggled(page[k]))
    BY <2>1, <2>2, <2>3, SaveUpdates
  <2>5. page[k].is_linkable => \A l \in link : l[2] # k
    BY <2>2, <2>3
  <2> QED
    BY <2>2, <2>4, <2>5 DEF Effect, FlipRow
<1>4. CASE DeletePage(w)
  <2>1. Delete({k}) /\ IncomingLinks(k) = {}
    BY <1>0, <1>4 DEF DeletePage, HeldAlone
  <2>2. CASE k \in DOMAIN page
    BY <2>1, <2>2 DEF Effect, OrphanGoes
  <2>3. CASE k \notin DOMAIN page
    <3>1. TablesStay
      BY <1>0, <2>1, <2>3 DEF Delete, Without, NoDanglingLinks, TablesStay
    <3> QED
      BY <3>1 DEF Effect
  <2> QED
    BY <2>2, <2>3
<1>5. CASE ResetStart(w)
  BY <1>5 DEF ResetStart, Effect
<1>6. CASE ResetCreate(w)
  <2>1. Seed \in Urls /\ Insert(NewRow(Seed)) /\ link' = link
    BY <1>6, StoreAssumption DEF ResetCreate
  <2>2. NewRow(Seed).url = Seed
    BY DEF NewRow
  <2>3. CASE PagesAt(Seed) = {}
    BY <2>1, <2>2, <2>3 DEF Insert, InsertFails, NewPage, Effect
  <2>4. CASE PagesAt(Seed) # {}
    BY <2>1, <2>2, <2>4, NothingWritten DEF Insert, InsertFails, Effect
  <2> QED
    BY <2>3, <2>4
<1> QED
  BY <1>1, <1>2, <1>3, <1>4, <1>5, <1>6 DEF ViewsStep

\* Every step of a process, its death included.
LEMMA StepHasEffect ==
    ASSUME AloneInv, NEW w \in Procs, Step(w)
    PROVE  Effect(w)
<1>1. CASE Abort(w)
  BY <1>1, NothingWritten DEF Abort, Effect
<1> QED
  BY <1>1, CheckEffect, ViewsEffect DEF Step

-----------------------------------------------------------------------------
(* Steps keep AloneInv *)

\* The time does not go back, and neither do the keys.
LEMMA CountersGrow ==
    ASSUME TypeInv, NEW w \in Procs, Step(w)
    PROVE  /\ clock' \in {clock, clock + 1}
           /\ nextPk' \in {nextPk, nextPk + 1}
           /\ clock \in Nat /\ nextPk \in Nat
<1>1. clock \in Nat /\ nextPk \in Nat
  BY StoreAssumption DEF TypeInv, TypeOK
<1>2. CASE CheckStep(w)
  BY <1>1, <1>2 DEF CheckStep, CheckStart, HeadFailure, HeadNoResponse, HeadSuccess, NotHtml,
              NotLocal, InvalidHtml, ReadBody, FindTarget, CreateTarget, AddLink,
              RemoveLinks, Start, Insert
<1>3. CASE ViewsStep(w)
  BY <1>1, <1>3 DEF ViewsStep, ToggleStart, ToggleUnlink, ToggleSave, DeleteStart,
              ExpungeStart, ExpungeTest, ExpungeEnd, DeletePage, ResetStart,
              ResetFind, ResetCreate, Start, Insert
<1>4. CASE Abort(w)
  BY <1>1, <1>4 DEF Abort
<1> QED
  BY <1>1, <1>2, <1>3, <1>4 DEF Step

\* A process that holds nothing a later statement relies on.
LEMMA HeldNothing ==
    ASSUME NEW w \in Procs,
           pc'[w] \in {"idle", "expunge", "reseed", "reinsert"}
    PROVE  HeldAlone(w)'
BY DEF HeldAlone, Saving

\* The instance that check_page and _update_links go on with.
LEMMA CheckHeld ==
    ASSUME AloneInv, NEW w \in Procs, CheckStep(w)
    PROVE  HeldAlone(w)'
<1> DEFINE k == inst[w].pk
<1> DEFINE r == inst[w].row
<1>0. /\ HeldAlone(w) /\ ProcOK /\ TimesInv /\ clock \in Nat /\ nextPk \in Nat
      /\ inst[w] \in Instance /\ r \in Row /\ upd[w] \in Frame
      /\ \A p \in DOMAIN page : page[p] \in Row /\ page[p].checked_at \in Nat
  BY StoreAssumption DEF AloneInv, TypeInv, TypeOK, ProcOK, Instance, Row
<1>1. ASSUME Return(w) PROVE HeldAlone(w)'
  BY <1>0, <1>1, ReturnOK, HeldNothing
<1>2. ASSUME NEW p \in 1 .. MaxPk, CheckStart(w, p)
      PROVE  HeldAlone(w)'
  <2> DEFINE i == [pk |-> p, row |-> Marked(page[p])]
  <2>1. /\ Go(w, "head", i) /\ p \in DOMAIN page /\ page' = page
        /\ clock' = clock + 1
    BY <1>2 DEF CheckStart, Start
  <2>2. i \in Instance /\ i.pk = p /\ i.row = Marked(page[p])
    BY <1>0, <2>1, AssignOK, StoreAssumption DEF Instance
  <2> HIDE DEF i
  <2>3. pc'[w] = "head" /\ inst'[w] = i
    BY <1>0, <2>1, <2>2, GoOK DEF Labels
  <2>4. MarkedFrom(i.row, page[p]) /\ i.row.checked_at = clock + 1
    <3>1. page[p].checked_at <= clock + 1
      BY <1>0, <2>1 DEF TimesInv
    <3> QED
      BY <1>0, <2>1, <2>2, <3>1, AssignFields, AssignLinkable DEF MarkedFrom
  <2> QED
    BY <1>0, <2>1, <2>2, <2>3, <2>4 DEF HeldAlone
<1>3. CASE HeadSuccess(w)
  <2> DEFINE i == [inst[w] EXCEPT !.row = Answered(@)]
  <2>1. i \in Instance /\ i.pk = k /\ i.row = Answered(r)
    BY <1>0, AssignOK DEF Instance
  <2>2. /\ pc[w] = "head" /\ Save(i.pk, i.row) /\ link' = link /\ clock' = clock
        /\ Return(w) \/ Go(w, "saved", i)
    BY <1>3 DEF HeadSuccess, Finish
  <2> HIDE DEF i
  <2>3. k \in DOMAIN page /\ MarkedFrom(r, page[k]) /\ r.checked_at <= clock
    BY <1>0, <2>2 DEF HeldAlone, Saving
  <2>4. Rewrite(k, i.row)
    BY <2>1, <2>2, <2>3, SaveUpdates DEF Instance
  <2>5. k \in DOMAIN page' /\ page'[k] = i.row
    BY <2>3, <2>4 DEF Rewrite, Put
  <2>6. i.row.is_checked /\ i.row.checked_at = r.checked_at
    BY <1>0, <2>1, <2>3, AssignFields DEF MarkedFrom
  <2>7. CASE Go(w, "saved", i)
    <3>1. pc'[w] = "saved" /\ inst'[w] = i
      BY <1>0, <2>1, <2>7, GoOK DEF Labels
    <3> QED
      BY <2>1, <2>2, <2>3, <2>5, <2>6, <3>1 DEF HeldAlone
  <2> QED
    BY <1>1, <2>2, <2>7
<1>4. ASSUME NEW urls \in SUBSET Urls, ReadBody(w, urls)
      PROVE  HeldAlone(w)'
  <2>1. /\ pc[w] = "saved" /\ Go(w, "links", inst[w]) /\ page' = page
    BY <1>4 DEF ReadBody
  <2>2. pc'[w] = "links" /\ inst'[w] = inst[w]
    BY <1>0, <2>1, GoOK DEF Labels
  <2> QED
    BY <1>0, <2>1, <2>2 DEF HeldAlone, Saving
<1>5. ASSUME NEW u \in Urls, FindTarget(w, u)
      PROVE  HeldAlone(w)'
  <2>1. pc[w] = "links" /\ page' = page
    BY <1>5 DEF FindTarget
  <2>2. k \in DOMAIN page
    BY <1>0, <2>1 DEF HeldAlone
  <2>3. CASE \E l \in {"links", "insert"} : Go(w, l, inst[w])
    <3>1. pc'[w] \in {"links", "insert"} /\ inst'[w] = inst[w]
      BY <1>0, <2>3, GoOK DEF Labels
    <3> QED
      BY <2>1, <2>2, <3>1 DEF HeldAlone, Saving
  <2>4. ASSUME NEW q \in PagesAt(u), page[q].is_linkable, Go(w, "link", inst[w]),
               upd' = [upd EXCEPT ![w].todo = @ \ {u}, ![w].target = q]
        PROVE  HeldAlone(w)'
    <3>1. pc'[w] = "link" /\ inst'[w] = inst[w]
      BY <1>0, <2>4, GoOK DEF Labels
    <3>2. upd'[w].target = q
      BY <1>0, <2>4 DEF AloneInv, TypeInv, TypeOK, Frame
    <3> QED
      BY <2>1, <2>2, <2>4, <3>1, <3>2 DEF HeldAlone, Saving, PagesAt
  <2> QED
    BY <1>5, <2>3, <2>4 DEF FindTarget
<1>6. CASE CreateTarget(w)
  <2> DEFINE u == upd[w].want
  <2>1. pc[w] = "insert" /\ Insert(NewRow(u))
    BY <1>6 DEF CreateTarget
  <2>2. k \in DOMAIN page
    BY <1>0, <2>1 DEF HeldAlone
  <2>3. CASE /\ ~ InsertFails(u) /\ Go(w, "link", inst[w])
             /\ upd' = [upd EXCEPT ![w].target = nextPk]
    <3>1. pc'[w] = "link" /\ inst'[w] = inst[w]
      BY <1>0, <2>3, GoOK DEF Labels
    <3>2. upd'[w].target = nextPk
      BY <1>0, <2>3 DEF AloneInv, TypeInv, TypeOK, Frame
    <3>3. NewRow(u).url = u /\ NewRow(u).is_linkable
      BY DEF NewRow
    <3>4. page' = Put(nextPk, NewRow(u))
      BY <2>1, <2>3, <3>3 DEF Insert
    <3>5. /\ k \in DOMAIN page' /\ nextPk \in DOMAIN page'
          /\ page'[nextPk] = NewRow(u)
      BY <2>2, <3>4 DEF Put
    <3> QED
      BY <3>1, <3>2, <3>3, <3>5 DEF HeldAlone, Saving
  <2>4. CASE Return(w)
    BY <1>1, <2>4
  <2> QED
    BY <1>6, <2>3, <2>4 DEF CreateTarget, Finish
<1>7. CASE AddLink(w)
  <2>1. pc[w] = "link" /\ page' = page /\ (Return(w) \/ Go(w, "links", inst[w]))
    BY <1>7 DEF AddLink, Finish
  <2>2. k \in DOMAIN page
    BY <1>0, <2>1 DEF HeldAlone
  <2>3. CASE Go(w, "links", inst[w])
    <3>1. pc'[w] = "links" /\ inst'[w] = inst[w]
      BY <1>0, <2>3, GoOK DEF Labels
    <3> QED
      BY <2>1, <2>2, <3>1 DEF HeldAlone, Saving
  <2> QED
    BY <1>1, <2>1, <2>3
<1>8. CASE HeadFailure(w) \/ HeadNoResponse(w) \/ NotHtml(w) \/ NotLocal(w)
           \/ InvalidHtml(w) \/ RemoveLinks(w)
  BY <1>1, <1>8 DEF HeadFailure, HeadNoResponse, NotHtml, NotLocal, InvalidHtml,
                    RemoveLinks, Finish
<1> QED
  BY <1>2, <1>3, <1>4, <1>5, <1>6, <1>7, <1>8 DEF CheckStep

\* The instance that the views and reset_site go on with.
LEMMA ViewsHeld ==
    ASSUME AloneInv, NEW w \in Procs, ViewsStep(w)
    PROVE  HeldAlone(w)'
<1> DEFINE k == inst[w].pk
<1>0. /\ HeldAlone(w) /\ ProcOK /\ TimesInv /\ clock \in Nat
      /\ inst[w] \in Instance /\ inst[w].row \in Row
      /\ \A p \in DOMAIN page : page[p] \in Row /\ page[p].checked_at \in Nat
      /\ DOMAIN page \subseteq Nat
  BY StoreAssumption DEF AloneInv, TypeInv, TypeOK, ProcOK, Instance, Row
<1>1. ASSUME Return(w) PROVE HeldAlone(w)'
  BY <1>0, <1>1, ReturnOK, HeldNothing
<1>2. ASSUME NEW l \in {"expunge", "reseed", "reinsert"}, Go(w, l, NoInstance)
      PROVE  HeldAlone(w)'
  <2>1. pc'[w] = l
    BY <1>0, <1>2, GoOK, DefaultsOK DEF Labels
  <2> QED
    BY <2>1, HeldNothing
<1>3. ASSUME NEW p \in 1 .. MaxPk, ToggleStart(w, p)
      PROVE  HeldAlone(w)'
  <2> DEFINE row == Toggled(page[p])
  <2> DEFINE i == [pk |-> p, row |-> row]
  <2>1. /\ p \in DOMAIN page /\ page' = page /\ link' = link /\ clock' = clock + 1
        /\ Go(w, IF row.is_linkable THEN "toggled" ELSE "unlink", i)
    BY <1>3 DEF ToggleStart, Start
  <2>2. /\ i \in Instance /\ i.pk = p /\ i.row = row
        /\ row.checked_at = page[p].checked_at
    BY <1>0, <2>1, AssignOK, AssignFields DEF Instance
  <2> HIDE DEF i, row
  <2>3. /\ pc'[w] = IF row.is_linkable THEN "toggled" ELSE "unlink"
        /\ inst'[w] = i
    BY <1>0, <2>1, <2>2, GoOK DEF Labels
  <2>4. row.checked_at <= clock + 1
    BY <1>0, <2>1, <2>2 DEF TimesInv
  <2>5. row = Toggled(page[p])
    BY DEF row
  <2> QED
    BY <2>1, <2>2, <2>3, <2>4, <2>5 DEF HeldAlone, Saving
<1>4. CASE ToggleUnlink(w)
  <2>1. /\ pc[w] = "unlink" /\ page' = page /\ clock' = clock
        /\ link' = {l \in link : l[2] # k} /\ Go(w, "toggled", inst[w])
    BY <1>4 DEF ToggleUnlink
  <2>2. pc'[w] = "toggled" /\ inst'[w] = inst[w]
    BY <1>0, <2>1, GoOK DEF Labels
  <2> QED
    BY <1>0, <2>1, <2>2 DEF HeldAlone, Saving
<1>5. ASSUME NEW p \in 1 .. MaxPk, DeleteStart(w, p)
      PROVE  HeldAlone(w)'
  <2> DEFINE i == [pk |-> p, row |-> page[p]]
  <2>1. /\ Go(w, "delete", i) /\ p \in DOMAIN page /\ page' = page /\ link' = link
        /\ can_be_deleted(p)
    BY <1>5 DEF DeleteStart
  <2>2. i \in Instance /\ i.pk = p
    BY <1>0, <2>1 DEF Instance
  <2> HIDE DEF i
  <2>3. pc'[w] = "delete" /\ inst'[w] = i
    BY <1>0, <2>1, <2>2, GoOK DEF Labels
  <2> QED
    BY <2>1, <2>2, <2>3 DEF HeldAlone, Saving, can_be_deleted, IncomingLinks
<1>6. ASSUME NEW p \in 1 .. MaxPk, ExpungeTest(w, p)
      PROVE  HeldAlone(w)'
  <2> DEFINE i == [NoInstance EXCEPT !.pk = p]
  <2>1. i \in Instance /\ i.pk = p
    BY DefaultsOK DEF Instance
  <2>2. /\ pc[w] = "expunge" /\ page' = page /\ link' = link
        /\ \/ can_be_deleted(p) /\ Go(w, "delete", i)
           \/ UNCHANGED <<pc, inst>>
    BY <1>6 DEF ExpungeTest
  <2> HIDE DEF i
  <2>3. CASE can_be_deleted(p) /\ Go(w, "delete", i)
    <3>1. pc'[w] = "delete" /\ inst'[w] = i
      BY <1>0, <2>1, <2>3, GoOK DEF Labels
    <3> QED
      BY <2>1, <2>2, <2>3, <3>1 DEF HeldAlone, Saving, can_be_deleted, IncomingLinks
  <2>4. CASE UNCHANGED <<pc, inst>>
    BY <2>2, <2>4, HeldNothing
  <2> QED
    BY <2>2, <2>3, <2>4
<1>7. CASE (\E S \in SUBSET (1 .. MaxPk) : ExpungeStart(w, S)) \/ ResetStart(w)
  BY <1>2, <1>7 DEF ExpungeStart, ResetStart
<1>8. CASE ToggleSave(w) \/ ExpungeEnd(w) \/ ResetCreate(w)
  BY <1>1, <1>8 DEF ToggleSave, ExpungeEnd, ResetCreate, Leave
<1>9. CASE DeletePage(w) \/ ResetFind(w)
  BY <1>1, <1>2, <1>9 DEF DeletePage, ResetFind, Leave
<1> QED
  BY <1>3, <1>4, <1>5, <1>6, <1>7, <1>8, <1>9 DEF ViewsStep

\* Every step of the only process.
LEMMA StepHeld ==
    ASSUME AloneInv, NEW w \in Procs, Step(w)
    PROVE  HeldAlone(w)'
<1>1. CASE Abort(w)
  <2>1. Return(w) /\ ProcOK
    BY <1>1 DEF Abort, Finish, AloneInv, TypeInv, TypeOK, ProcOK
  <2> QED
    BY <2>1, ReturnOK, HeldNothing
<1> QED
  BY <1>1, CheckHeld, ViewsHeld DEF Step

\* What put a row in the table, and what left the others.
LEMMA PutOK ==
    ASSUME NEW k, NEW row, page' = Put(k, row)
    PROVE  /\ DOMAIN page' = DOMAIN page \cup {k}
           /\ \A p \in DOMAIN page' : page'[p] = IF p = k THEN row ELSE page[p]
BY DEF Put

\* No effect leaves a link to a page that wants none, or a row checked in the
\* future.
LEMMA EffectKeeps ==
    ASSUME AloneInv, NEW w \in Procs, Effect(w), clock' \in {clock, clock + 1}
    PROVE  LinkableRespected' /\ TimesInv'
<1>0. /\ LinkableRespected /\ TimesInv /\ NoDanglingLinks /\ clock \in Nat
      /\ \A p \in DOMAIN page : page[p] \in Row /\ page[p].checked_at \in Nat
      /\ nextPk \notin DOMAIN page
  BY StoreAssumption DEF AloneInv, TypeInv, TypeOK, Row
<1>t. ASSUME \A p \in DOMAIN page' : page'[p].checked_at \in Nat
                                     /\ page'[p].checked_at <= clock
      PROVE  TimesInv'
  BY <1>0, <1>t DEF TimesInv
<1>1. ASSUME \A p \in DOMAIN page' : p \in DOMAIN page /\ page'[p] = page[p],
             \A l \in link' : l \in link
      PROVE  LinkableRespected' /\ TimesInv'
  BY <1>0, <1>1, <1>t DEF LinkableRespected, TimesInv
<1>2. CASE TablesStay
  BY <1>1, <1>2 DEF TablesStay
<1>3. ASSUME NEW k, NEW row, AttemptRow(k, row)
      PROVE  LinkableRespected' /\ TimesInv'
  <2>1. /\ k \in DOMAIN page /\ page' = Put(k, row) /\ link' = link /\ row \in Row
        /\ row.is_linkable = page[k].is_linkable /\ row.checked_at <= clock
    BY <1>3 DEF AttemptRow, Rewrite, MarkedFrom
  <2>2. row.checked_at \in Nat
    BY <2>1 DEF Row
  <2>3. /\ DOMAIN page' = DOMAIN page
        /\ \A p \in DOMAIN page : page'[p] = IF p = k THEN row ELSE page[p]
    BY <2>1 DEF Put
  <2>4. LinkableRespected'
    BY <1>0, <2>1, <2>3 DEF LinkableRespected
  <2>5. TimesInv'
    BY <1>0, <1>t, <2>1, <2>2, <2>3 DEF TimesInv
  <2> QED
    BY <2>4, <2>5
<1>4. ASSUME NEW k, FlipRow(k)
      PROVE  LinkableRespected' /\ TimesInv'
  <2> DEFINE row == Toggled(page[k])
  <2>1. /\ k \in DOMAIN page /\ page' = Put(k, row) /\ link' = link
        /\ page[k].is_linkable => \A l \in link : l[2] # k
    BY <1>4 DEF FlipRow, Rewrite
  <2>2. row.is_linkable = ~ page[k].is_linkable /\ row.checked_at = page[k].checked_at
    BY <1>0, <2>1, AssignLinkable, AssignFields
  <2> HIDE DEF row
  <2>3. /\ DOMAIN page' = DOMAIN page
        /\ \A p \in DOMAIN page : page'[p] = IF p = k THEN row ELSE page[p]
    BY <2>1 DEF Put
  <2>4. LinkableRespected'
    BY <1>0, <2>1, <2>2, <2>3 DEF LinkableRespected
  <2>5. TimesInv'
    BY <1>0, <1>t, <2>1, <2>2, <2>3 DEF TimesInv
  <2> QED
    BY <2>4, <2>5
<1>5. ASSUME NEW u \in Urls, NewPage(u)
      PROVE  LinkableRespected' /\ TimesInv'
  <2>1. page' = Put(nextPk, NewRow(u)) /\ link' = link
    BY <1>5 DEF NewPage
  <2>2. NewRow(u).is_linkable /\ NewRow(u).checked_at = 0
    BY DEF NewRow, EPOCH
  <2>3. /\ DOMAIN page' = DOMAIN page \cup {nextPk}
        /\ page'[nextPk] = NewRow(u)
        /\ \A p \in DOMAIN page : page'[p] = page[p]
    BY <1>0, <2>1 DEF Put
  <2>4. LinkableRespected'
    BY <1>0, <2>1, <2>2, <2>3 DEF LinkableRespected, NoDanglingLinks
  <2>5. TimesInv'
    BY <1>0, <1>t, <2>1, <2>2, <2>3 DEF TimesInv
  <2> QED
    BY <2>4, <2>5
<1>6. CASE (\E k : LinksFromGo(k)) \/ (\E k : LinksToGo(k))
  BY <1>1, <1>6 DEF LinksFromGo, LinksToGo
<1>7. ASSUME NEW k, NEW q, NewLink(k, q)
      PROVE  LinkableRespected' /\ TimesInv'
  BY <1>0, <1>7, <1>t DEF NewLink, LinkableRespected, TimesInv
<1>8. ASSUME NEW S, Delete(S)
      PROVE  LinkableRespected' /\ TimesInv'
  BY <1>1, <1>8 DEF Delete, Without
<1> QED
  BY <1>2, <1>3, <1>4, <1>5, <1>6, <1>7, <1>8 DEF Effect, OrphanGoes

\* Every step, and every stuttering step.
LEMMA AloneStep == Alone /\ AloneInv /\ [Next]_vars => AloneInv'
<1> SUFFICES ASSUME Alone, AloneInv, [Next]_vars PROVE AloneInv'
  OBVIOUS
<1>1. ASSUME NEW w \in Procs, Step(w), Next
      PROVE  AloneInv'
  <2>1. TypeInv /\ KeyInv /\ RowsInv /\ NoDanglingLinks
    BY DEF AloneInv
  <2>2. TypeInv'
    BY <1>1, <2>1, TypeStep
  <2>3. KeyInv' /\ RowsInv' /\ NoDanglingLinks'
    BY <1>1, <2>1, StepHasShape, KeyStep, RowsStep, LinksStep
  <2>4. LinkableRespected' /\ TimesInv'
    BY <1>1, <2>1, StepHasEffect, CountersGrow, EffectKeeps
  <2>5. \A v \in Procs : HeldAlone(v)'
    BY <1>1, StepHeld DEF Alone
  <2> QED
    BY <2>2, <2>3, <2>4, <2>5 DEF AloneInv
<1>2. CASE UNCHANGED vars
  BY <1>2 DEF vars, storeVars, AloneInv, TypeInv, TypeOK, HeldKeys, KeyInv, UniquePages,
              OneUrl, RowsInv, NoDanglingLinks, LinkableRespected, TimesInv, HeldAlone,
              IncomingLinks
<1> QED
  BY <1>1, <1>2 DEF Next

\* The new site.
LEMMA AloneInit == Init => AloneInv
<1> SUFFICES ASSUME Init PROVE AloneInv
  OBVIOUS
<1>1. TypeInv /\ KeyInv /\ RowsInv
  BY TypeInit, KeyInit, RowsInit
<1>2. NoDanglingLinks /\ LinkableRespected
  BY DEF Init, StoreInit, NoDanglingLinks, LinkableRespected
<1>3. TimesInv
  <2>0. DOMAIN page = {1} /\ clock = 0
    BY DEF Init, StoreInit
  <2>1. page[1] = [NewRow(Seed) EXCEPT !.status = -1]
    BY DEF Init, StoreInit
  <2>2. \A r \in Row : [r EXCEPT !.status = -1].checked_at = r.checked_at
    BY DEF Row
  <2>3. NewRow(Seed) \in Row /\ NewRow(Seed).checked_at = 0
    BY StoreAssumption DEF NewRow, Row, Statuses, EPOCH
  <2>4. page[1].checked_at = 0
    BY <2>1, <2>2, <2>3
  <2> QED
    BY <2>0, <2>4 DEF TimesInv
<1>4. \A w \in Procs : HeldAlone(w)
  BY DEF Init, StoreInit, HeldAlone, Saving
<1> QED
  BY <1>1, <1>2, <1>3, <1>4 DEF AloneInv

-----------------------------------------------------------------------------
(* Theorems *)

\* One operation at a time, a page whose is_linkable is false has no incoming
\* link: nothing comes between the test of _update_links and its get_or_create,
\* or between the two statements of the toggle.
THEOREM LinkableAlone == ASSUME Alone PROVE Spec => []LinkableRespected
<1>1. AloneInv => LinkableRespected
  BY DEF AloneInv
<1>2. AloneInv /\ [Next]_vars => AloneInv'
  BY AloneStep
<1> QED
  BY <1>1, <1>2, AloneInit, PTL DEF Spec

\* The steps of one process, and the steps in which nothing happens.
LEMMA NextHasEffect ==
    ASSUME AloneInv, [Next]_vars
    PROVE  \/ UNCHANGED vars
           \/ \E w \in Procs : Step(w) /\ Effect(w)
BY StepHasEffect DEF Next

\* One operation at a time, only a page that no other page links to goes, other
\* than by reset_site: can_be_deleted still holds when delete() runs.
THEOREM OrphansAlone == ASSUME Alone PROVE Spec => OnlyOrphansDeleted
<1> DEFINE A == \A p \in DOMAIN page \ DOMAIN page' :
                  (\E w \in Procs : ResetStart(w)) \/ IncomingLinks(p) \subseteq {p}
<1>1. AloneInv /\ [Next]_vars => [A]_vars
  <2> SUFFICES ASSUME AloneInv, [Next]_vars, ~ UNCHANGED vars,
                      NEW p \in DOMAIN page \ DOMAIN page',
                      \A w \in Procs : ~ ResetStart(w)
               PROVE  IncomingLinks(p) \subseteq {p}
    OBVIOUS
  <2>1. PICK w \in Procs : Effect(w)
    BY NextHasEffect
  <2>2. CASE \E k : OrphanGoes(k)
    BY <2>2 DEF OrphanGoes, Delete, Without
  <2>3. CASE TablesStay \/ (\E k : LinksFromGo(k)) \/ (\E k : LinksToGo(k))
             \/ (\E k, q : NewLink(k, q))
    BY <2>3 DEF TablesStay, LinksFromGo, LinksToGo, NewLink
  <2>4. CASE \E k, row : page' = Put(k, row)
    BY <2>4, PutOK
  <2> QED
    BY <2>1, <2>2, <2>3, <2>4 DEF Effect, AttemptRow, FlipRow, Rewrite, NewPage
<1>2. AloneInv /\ [Next]_vars => AloneInv'
  BY AloneStep
<1> QED
  BY <1>1, <1>2, AloneInit, PTL DEF Spec, OnlyOrphansDeleted

\* A row that is in the table before and after an effect keeps what its last
\* check says, or was checked again.
LEMMA RowsKeep ==
    ASSUME AloneInv, [Next]_vars,
           NEW p \in DOMAIN page, p \in DOMAIN page'
    PROVE  /\ page[p].is_checked => page'[p].is_checked
           /\ page[p].checked_at <= page'[p].checked_at
<1>0. /\ page[p] \in Row /\ page[p].checked_at \in Nat /\ clock \in Nat
      /\ nextPk \notin DOMAIN page
  BY StoreAssumption DEF AloneInv, TypeInv, TypeOK, Row
<1>1. CASE page'[p] = page[p]
  BY <1>0, <1>1
<1>2. ASSUME NEW k, NEW row, AttemptRow(k, row), page'[p] # page[p]
      PROVE  page'[p].is_checked /\ page[p].checked_at <= page'[p].checked_at
  BY <1>2, PutOK DEF AttemptRow, Rewrite, MarkedFrom
<1>3. ASSUME NEW k, FlipRow(k), page'[p] # page[p]
      PROVE  /\ page'[p].is_checked = page[p].is_checked
             /\ page'[p].checked_at = page[p].checked_at
  <2>1. page'[p] = IF p = k THEN Toggled(page[k]) ELSE page[p]
    BY <1>3 DEF FlipRow, Rewrite, Put
  <2>2. page'[p] = Toggled(page[p])
    BY <1>3, <2>1
  <2> QED
    BY <1>0, <2>2, AssignFields
<1>4. CASE UNCHANGED vars
  BY <1>1, <1>4 DEF vars, storeVars
<1>5. CASE \E u \in Urls : NewPage(u)
  BY <1>0, <1>1, <1>5, PutOK DEF NewPage
<1>6. CASE \E S : Delete(S)
  BY <1>1, <1>6 DEF Delete, Without
<1>7. CASE TablesStay \/ (\E k : LinksFromGo(k)) \/ (\E k : LinksToGo(k))
           \/ (\E k, q : NewLink(k, q))
  BY <1>1, <1>7 DEF TablesStay, LinksFromGo, LinksToGo, NewLink
<1>8. CASE (\E k, row : AttemptRow(k, row)) \/ (\E k : FlipRow(k))
  BY <1>0, <1>1, <1>2, <1>3, <1>8
<1>9. CASE \E w \in Procs : Effect(w)
  BY <1>5, <1>6, <1>7, <1>8, <1>9 DEF Effect, OrphanGoes
<1> QED
  BY <1>4, <1>9, NextHasEffect

\* One operation at a time, a page that was tried stays so: the instance the
\* toggle saves is not stale.
THEOREM CheckedAlone == ASSUME Alone PROVE Spec => StaysChecked
<1>1. AloneInv /\ [Next]_vars =>
        [\A p \in DOMAIN page \cap DOMAIN page' :
           page[p].is_checked => page'[p].is_checked]_vars
  BY RowsKeep
<1>2. AloneInv /\ [Next]_vars => AloneInv'
  BY AloneStep
<1> QED
  BY <1>1, <1>2, AloneInit, PTL DEF Spec, StaysChecked

\* One operation at a time, checked_at never goes back.
THEOREM TimesAlone == ASSUME Alone PROVE Spec => CheckedAtAdvances
<1>1. AloneInv /\ [Next]_vars =>
        [\A p \in DOMAIN page \cap DOMAIN page' :
           page[p].checked_at <= page'[p].checked_at]_vars
  BY RowsKeep
<1>2. AloneInv /\ [Next]_vars => AloneInv'
  BY AloneStep
<1> QED
  BY <1>1, <1>2, AloneInit, PTL DEF Spec, CheckedAtAdvances

\* One operation at a time, a row that appears has a new key: no save finds its
\* row gone.
THEOREM DeletedAlone == ASSUME Alone PROVE Spec => NoResurrection
<1> DEFINE A == \A p \in DOMAIN page' \ DOMAIN page : p >= nextPk
<1>1. AloneInv /\ [Next]_vars => [A]_vars
  <2> SUFFICES ASSUME AloneInv, [Next]_vars, ~ UNCHANGED vars,
                      NEW p \in DOMAIN page' \ DOMAIN page
               PROVE  p >= nextPk
    OBVIOUS
  <2>0. nextPk \in Nat
    BY StoreAssumption DEF AloneInv, TypeInv, TypeOK
  <2>1. PICK w \in Procs : Effect(w)
    BY NextHasEffect
  <2>2. CASE \E u \in Urls : NewPage(u)
    BY <2>0, <2>2 DEF NewPage, Put
  <2>3. CASE \E row : \E k \in DOMAIN page : page' = Put(k, row)
    BY <2>3, PutOK
  <2>4. CASE \E S : Delete(S)
    BY <2>4 DEF Delete, Without
  <2>5. CASE TablesStay \/ (\E k : LinksFromGo(k)) \/ (\E k : LinksToGo(k))
             \/ (\E k, q : NewLink(k, q))
    BY <2>5 DEF TablesStay, LinksFromGo, LinksToGo, NewLink
  <2> QED
    BY <2>1, <2>2, <2>3, <2>4, <2>5 DEF Effect, AttemptRow, FlipRow, Rewrite, OrphanGoes
<1>2. AloneInv /\ [Next]_vars => AloneInv'
  BY AloneStep
<1> QED
  BY <1>1, <1>2, AloneInit, PTL DEF Spec, NoResurrection

-----------------------------------------------------------------------------
(* Spidercheck implements SiteSpec *)

\* What SiteSpec sees of a row after check_page, the toggle and a new page.
LEMMA RowViews ==
    ASSUME NEW r \in Row, NEW row \in Row
    PROVE  /\ MarkedFrom(row, r) =>
                \E result \in {"right", "broken"} :
                   PageOf(row) = [PageOf(r) EXCEPT !.state = result]
           /\ clock \in Nat =>
                PageOf(Toggled(r)) = [PageOf(r) EXCEPT !.linkable = ~ @]
<1>1. ASSUME MarkedFrom(row, r)
      PROVE  \E result \in {"right", "broken"} :
                PageOf(row) = [PageOf(r) EXCEPT !.state = result]
  <2>1. PageState(row) \in {"right", "broken"}
    BY <1>1 DEF MarkedFrom, PageState
  <2>2. PageOf(row) = [PageOf(r) EXCEPT !.state = PageState(row)]
    BY <1>1 DEF MarkedFrom, PageOf
  <2> QED
    BY <2>1, <2>2
<1>2. ASSUME clock \in Nat
      PROVE  PageOf(Toggled(r)) = [PageOf(r) EXCEPT !.linkable = ~ @]
  <2>1. /\ Toggled(r).url = r.url /\ Toggled(r).is_checked = r.is_checked
        /\ Toggled(r).status = r.status /\ Toggled(r).is_linkable = ~ r.is_linkable
    BY <1>2, AssignFields, AssignLinkable
  <2>2. PageState(Toggled(r)) = PageState(r)
    BY <2>1 DEF PageState, is_ok
  <2> QED
    BY <2>1, <2>2 DEF PageOf
<1> QED
  BY <1>1, <1>2

\* The pages and links that SiteSpec sees after one row was rewritten, with the
\* url it had.
LEMMA RewriteViews ==
    ASSUME UniquePages, NoDanglingLinks, NEW k, NEW row, Rewrite(k, row),
           row.url = page[k].url
    PROVE  /\ PageOf(page[k]) \in Pages
           /\ Pages' = (Pages \ {PageOf(page[k])}) \cup {PageOf(row)}
           /\ Edges' = Edges
<1>1. /\ k \in DOMAIN page /\ DOMAIN page' = DOMAIN page /\ link' = link
      /\ \A p \in DOMAIN page : page'[p] = IF p = k THEN row ELSE page[p]
  BY DEF Rewrite, Put
<1>2. \A p \in DOMAIN page : page'[p].url = page[p].url
  BY <1>1
<1>3. Edges' = Edges
  BY <1>1, <1>2 DEF Edges, NoDanglingLinks
<1>4. \A p \in DOMAIN page \ {k} : PageOf(page[p]) # PageOf(page[k])
  BY <1>1 DEF PageOf, UniquePages
<1>5. Pages' = {PageOf(page'[p]) : p \in DOMAIN page'}
  BY DEF Pages, PageOf, PageState, is_ok
<1>6. Pages' = (Pages \ {PageOf(page[k])}) \cup {PageOf(row)}
  BY <1>1, <1>4, <1>5 DEF Pages
<1> QED
  BY <1>1, <1>3, <1>6 DEF Pages

\* The links of SiteSpec, end by end: a url stands for one page.
LEMMA EdgeEnds ==
    ASSUME UniquePages, NoDanglingLinks, NEW k \in DOMAIN page
    PROVE  /\ (\A e \in Edges : e[2] # page[k].url) <=> (\A l \in link : l[2] # k)
           /\ \A l \in link : <<page[l[1]].url, page[l[2]].url>> \in Edges
           /\ {e \in Edges : e[2] # page[k].url}
                = {<<page[l[1]].url, page[l[2]].url>> : l \in {m \in link : m[2] # k}}
           /\ {e \in Edges : e[1] # page[k].url}
                = {<<page[l[1]].url, page[l[2]].url>> : l \in {m \in link : m[1] # k}}
<1>1. \A l \in link : /\ l[2] = k <=> page[l[2]].url = page[k].url
                      /\ l[1] = k <=> page[l[1]].url = page[k].url
  BY DEF UniquePages, NoDanglingLinks
<1>2. Edges = {<<page[l[1]].url, page[l[2]].url>> : l \in link}
  BY DEF Edges
<1>3. (\A e \in Edges : e[2] # page[k].url) <=> (\A l \in link : l[2] # k)
  <2>1. ASSUME \A e \in Edges : e[2] # page[k].url, NEW l \in link
        PROVE  l[2] # k
    <3>1. <<page[l[1]].url, page[l[2]].url>> \in Edges
      BY <1>2
    <3>2. <<page[l[1]].url, page[l[2]].url>>[2] # page[k].url
      BY <2>1, <3>1
    <3> QED
      BY <1>1, <3>2
  <2>2. ASSUME \A l \in link : l[2] # k, NEW e \in Edges
        PROVE  e[2] # page[k].url
    <3>1. PICK l \in link : e = <<page[l[1]].url, page[l[2]].url>>
      BY <1>2
    <3> QED
      BY <1>1, <2>2, <3>1
  <2> QED
    BY <2>1, <2>2
<1>4. {e \in Edges : e[2] # page[k].url}
        = {<<page[l[1]].url, page[l[2]].url>> : l \in {m \in link : m[2] # k}}
  BY <1>1, <1>2
<1>5. {e \in Edges : e[1] # page[k].url}
        = {<<page[l[1]].url, page[l[2]].url>> : l \in {m \in link : m[1] # k}}
  BY <1>1, <1>2
<1> QED
  BY <1>2, <1>3, <1>4, <1>5

\* A step that leaves page alone changes nothing but links for SiteSpec.
LEMMA LinkViews ==
    ASSUME page' = page
    PROVE  /\ Pages' = Pages
           /\ Edges' = {<<page[l[1]].url, page[l[2]].url>> : l \in link'}
BY DEF Pages, PageOf, PageState, is_ok, Edges

\* Rows that go, with their links.
LEMMA DeleteViews ==
    ASSUME NoDanglingLinks, NEW S, Delete(S)
    PROVE  /\ Pages' = {PageOf(page[p]) : p \in DOMAIN page \ S}
           /\ Edges' = {<<page[l[1]].url, page[l[2]].url>> :
                          l \in {m \in link : m[1] \notin S /\ m[2] \notin S}}
<1>1. /\ DOMAIN page' = DOMAIN page \ S
      /\ \A p \in DOMAIN page' : page'[p] = page[p]
      /\ link' = {m \in link : m[1] \notin S /\ m[2] \notin S}
      /\ \A l \in link' : page'[l[1]] = page[l[1]] /\ page'[l[2]] = page[l[2]]
  BY DEF Delete, Without, NoDanglingLinks
<1>2. Pages' = {PageOf(page'[p]) : p \in DOMAIN page'}
  BY DEF Pages, PageOf, PageState, is_ok
<1>3. Edges' = {<<page'[l[1]].url, page'[l[2]].url>> : l \in link'}
  BY DEF Edges
<1> QED
  BY <1>1, <1>2, <1>3

\* Every effect is a step of SiteSpec, or nothing to it.
LEMMA EffectImplements ==
    ASSUME AloneInv, NEW w \in Procs, Effect(w)
    PROVE  Abstract!SpecNext \/ UNCHANGED <<Pages, Edges>>
<1>0. /\ UniquePages /\ NoDanglingLinks /\ clock \in Nat
      /\ \A p \in DOMAIN page : page[p] \in Row
      /\ nextPk \notin DOMAIN page /\ link \subseteq Nat \X Nat
  BY StoreAssumption DEF AloneInv, KeyInv, TypeInv, TypeOK
<1>1. CASE TablesStay
  <2>1. Pages' = {PageOf(page'[p]) : p \in DOMAIN page'}
    BY DEF Pages, PageOf, PageState, is_ok
  <2>2. Pages' = Pages /\ Edges' = Edges
    BY <1>0, <1>1, <2>1 DEF TablesStay, Pages, Edges, NoDanglingLinks
  <2> QED
    BY <2>2
<1>2. ASSUME NEW k, NEW row, AttemptRow(k, row)
      PROVE  Abstract!SpecNext
  <2> DEFINE r == PageOf(page[k])
  <2>1. /\ k \in DOMAIN page /\ row \in Row /\ Rewrite(k, row)
        /\ MarkedFrom(row, page[k]) /\ row.url = page[k].url
    BY <1>2 DEF AttemptRow, Rewrite, MarkedFrom
  <2>2. PICK result \in {"right", "broken"} : PageOf(row) = [r EXCEPT !.state = result]
    BY <1>0, <2>1, RowViews
  <2>3. /\ r \in Pages /\ Pages' = (Pages \ {r}) \cup {PageOf(row)} /\ Edges' = Edges
    BY <1>0, <2>1, RewriteViews
  <2> HIDE DEF r
  <2>4. Abstract!Attempt(r, result)
    BY <2>2, <2>3 DEF Abstract!Attempt, Abstract!Replace
  <2> QED
    BY <2>3, <2>4 DEF Abstract!SpecNext
<1>3. ASSUME NEW k, FlipRow(k)
      PROVE  Abstract!SpecNext
  <2> DEFINE r == PageOf(page[k])
  <2> DEFINE row == Toggled(page[k])
  <2>1. /\ k \in DOMAIN page /\ Rewrite(k, row) /\ row.url = page[k].url
        /\ row \in Row
        /\ page[k].is_linkable => \A l \in link : l[2] # k
    BY <1>0, <1>3, AssignFields, AssignOK DEF FlipRow
  <2>2. PageOf(row) = [r EXCEPT !.linkable = ~ @]
    BY <1>0, <2>1, RowViews
  <2>3. /\ r \in Pages /\ Pages' = (Pages \ {r}) \cup {PageOf(row)} /\ Edges' = Edges
    BY <1>0, <2>1, RewriteViews
  <2>4. r.linkable => \A e \in Edges : e[2] # r.url
    <3>1. r.linkable = page[k].is_linkable /\ r.url = page[k].url
      BY DEF PageOf
    <3> QED
      BY <1>0, <2>1, <3>1, EdgeEnds
  <2> HIDE DEF r, row
  <2>5. Abstract!Toggle(r)
    BY <2>2, <2>3, <2>4 DEF Abstract!Toggle, Abstract!Replace
  <2> QED
    BY <2>3, <2>5 DEF Abstract!SpecNext
<1>4. ASSUME NEW u \in Urls, NewPage(u)
      PROVE  Abstract!SpecNext
  <2>1. /\ DOMAIN page' = DOMAIN page \cup {nextPk}
        /\ page'[nextPk] = NewRow(u)
        /\ \A p \in DOMAIN page : page'[p] = page[p]
        /\ link' = link
    BY <1>0, <1>4 DEF NewPage, Put
  <2>2. Pages' = {PageOf(page'[p]) : p \in DOMAIN page'}
    BY DEF Pages, PageOf, PageState, is_ok
  <2>3. PageOf(NewRow(u)) = Abstract!Queued(u)
    BY DEF PageOf, PageState, NewRow, Abstract!Queued
  <2>4. Pages' = Pages \cup {Abstract!Queued(u)}
    BY <2>1, <2>2, <2>3 DEF Pages
  <2>5. Edges' = Edges
    BY <1>0, <2>1 DEF Edges, NoDanglingLinks
  <2>6. ~ Abstract!Known(u)
    BY <1>4 DEF Abstract!Known, NewPage, PagesAt, Pages, PageOf
  <2> QED
    BY <2>4, <2>5, <2>6 DEF Abstract!Find, Abstract!SpecNext
<1>5. ASSUME NEW k, LinksFromGo(k)
      PROVE  Abstract!SpecNext
  <2> DEFINE u == page[k].url
  <2>1. /\ k \in DOMAIN page /\ page' = page /\ link' \subseteq link
        /\ \A l \in link \ link' : l[1] = k
    BY <1>5 DEF LinksFromGo
  <2>2. u \in Urls
    BY <1>0, <2>1 DEF Row
  <2>3. Pages' = Pages /\ Edges' = {<<page[l[1]].url, page[l[2]].url>> : l \in link'}
    BY <2>1, LinkViews
  <2>4. Edges' \subseteq Edges /\ \A e \in Edges \ Edges' : e[1] = u
    BY <2>1, <2>3 DEF Edges
  <2> HIDE DEF u
  <2> QED
    BY <2>2, <2>3, <2>4 DEF Abstract!DisconnectFrom, Abstract!SpecNext
<1>6. ASSUME NEW k, LinksToGo(k)
      PROVE  Abstract!SpecNext
  <2> DEFINE u == page[k].url
  <2>1. /\ k \in DOMAIN page /\ page' = page /\ link' = {l \in link : l[2] # k}
    BY <1>6 DEF LinksToGo
  <2>2. u \in Urls
    BY <1>0, <2>1 DEF Row
  <2>3. Pages' = Pages /\ Edges' = {<<page[l[1]].url, page[l[2]].url>> : l \in link'}
    BY <2>1, LinkViews
  <2>4. Edges' = {e \in Edges : e[2] # u}
    BY <1>0, <2>1, <2>3, EdgeEnds
  <2> HIDE DEF u
  <2> QED
    BY <2>2, <2>3, <2>4 DEF Abstract!DisconnectTo, Abstract!SpecNext
<1>7. ASSUME NEW k, NEW q, NewLink(k, q)
      PROVE  Abstract!SpecNext
  <2> DEFINE r == PageOf(page[k])
  <2> DEFINE s == PageOf(page[q])
  <2>1. /\ k \in DOMAIN page /\ q \in DOMAIN page /\ page[q].is_linkable
        /\ page' = page /\ link' = link \cup {<<k, q>>}
    BY <1>7 DEF NewLink
  <2>2. Pages' = Pages /\ Edges' = {<<page[l[1]].url, page[l[2]].url>> : l \in link'}
    BY <2>1, LinkViews
  <2>3. /\ r \in Pages /\ s \in Pages /\ s.linkable
        /\ r.url = page[k].url /\ s.url = page[q].url
    BY <2>1 DEF Pages, PageOf
  <2>4. Edges' = Edges \cup {<<r.url, s.url>>}
    <3>1. <<page[<<k, q>>[1]].url, page[<<k, q>>[2]].url>> = <<r.url, s.url>>
      BY <2>3
    <3>2. \A e : e \in Edges' <=> e \in Edges \/ e = <<r.url, s.url>>
      BY <2>1, <2>2, <3>1 DEF Edges
    <3> QED
      BY <3>2
  <2> HIDE DEF r, s
  <2>5. Abstract!Connect(r, s)
    BY <2>2, <2>3, <2>4 DEF Abstract!Connect
  <2> QED
    BY <2>3, <2>5 DEF Abstract!SpecNext
<1>8. ASSUME NEW k, OrphanGoes(k)
      PROVE  Abstract!SpecNext
  <2> DEFINE r == PageOf(page[k])
  <2>1. k \in DOMAIN page /\ IncomingLinks(k) = {} /\ Delete({k})
    BY <1>8 DEF OrphanGoes
  <2>2. \A l \in link : l[2] # k
    <3>1. \A l \in link : l = <<l[1], l[2]>> /\ l[1] \in DOMAIN page
      BY <1>0 DEF NoDanglingLinks
    <3> QED
      BY <2>1, <3>1 DEF IncomingLinks
  <2>3. /\ Pages' = {PageOf(page[p]) : p \in DOMAIN page \ {k}}
        /\ Edges' = {<<page[l[1]].url, page[l[2]].url>> :
                       l \in {m \in link : m[1] \notin {k} /\ m[2] \notin {k}}}
    BY <1>0, <2>1, DeleteViews
  <2>4. \A p \in DOMAIN page \ {k} : PageOf(page[p]) # r
    BY <1>0, <2>1 DEF PageOf, UniquePages
  <2>5. r \in Pages /\ Pages' = Pages \ {r}
    BY <2>1, <2>3, <2>4 DEF Pages
  <2>6. r.url = page[k].url
    BY DEF PageOf
  <2>7. {m \in link : m[1] \notin {k} /\ m[2] \notin {k}} = {m \in link : m[1] # k}
    BY <2>2
  <2>8. Edges' = {e \in Edges : e[1] # r.url} /\ \A e \in Edges : e[2] # r.url
    BY <1>0, <2>1, <2>2, <2>3, <2>6, <2>7, EdgeEnds
  <2> HIDE DEF r
  <2>9. Abstract!Remove(r)
    BY <2>5, <2>8 DEF Abstract!Remove
  <2> QED
    BY <2>5, <2>9 DEF Abstract!SpecNext
<1>9. CASE Delete(DOMAIN page)
  <2>1. Pages' = {} /\ Edges' = {}
    BY <1>0, <1>9, DeleteViews DEF NoDanglingLinks
  <2> QED
    BY <2>1 DEF Abstract!Clear, Abstract!SpecNext
<1> QED
  BY <1>1, <1>2, <1>3, <1>4, <1>5, <1>6, <1>7, <1>8, <1>9 DEF Effect

\* One operation at a time, cut short or not, every statement of Spidercheck
\* does to the site one of the things SiteSpec allows, or nothing.
THEOREM ImplementsAlone == ASSUME Alone PROVE Spec => Implements
<1>1. Init => Abstract!SpecInit
  <2> SUFFICES ASSUME Init PROVE Abstract!SpecInit
    OBVIOUS
  <2>1. DOMAIN page = {1} /\ link = {}
    BY DEF Init, StoreInit
  <2>2. page[1] = [NewRow(Seed) EXCEPT !.status = -1]
    BY DEF Init, StoreInit
  <2>3. PageOf([NewRow(Seed) EXCEPT !.status = -1]) = Abstract!Queued(Seed)
    BY DEF NewRow, PageOf, PageState, Abstract!Queued
  <2>4. Pages = {Abstract!Queued(Seed)}
    <3>1. Pages = {PageOf(page[1])}
      BY <2>1 DEF Pages
    <3> QED
      BY <2>2, <2>3, <3>1
  <2>5. Edges = {}
    BY <2>1 DEF Edges
  <2> QED
    BY <2>4, <2>5 DEF Abstract!SpecInit
<1>2. AloneInv /\ [Next]_vars => [Abstract!SpecNext]_(Abstract!specVars)
  <2> SUFFICES ASSUME AloneInv, [Next]_vars
               PROVE  Abstract!SpecNext \/ UNCHANGED <<Pages, Edges>>
    BY DEF Abstract!specVars
  <2>1. CASE UNCHANGED vars
    BY <2>1 DEF vars, storeVars, Pages, PageOf, PageState, is_ok, Edges
  <2>2. CASE \E w \in Procs : Effect(w)
    BY <2>2, EffectImplements
  <2> QED
    BY <2>1, <2>2, NextHasEffect
<1>3. AloneInv /\ [Next]_vars => AloneInv'
  BY AloneStep
<1> QED
  BY <1>1, <1>2, <1>3, AloneInit, PTL DEF Spec, Implements, Abstract!SiteSpec
=============================================================================
