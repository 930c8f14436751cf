------------------------------ MODULE SiteViews ------------------------------
(***************************************************************************)
(* The operations of views.py that write, and core.reset_site, statement   *)
(* by statement. Each begins by loading what it works on (PageConverter,   *)
(* SiteConverter) and ends with a redirect or an exception.                *)
(***************************************************************************)
EXTENDS Store

VARIABLE doomed   \* doomed[w]: the pages the loop of w has not reached

Leave(w) == Return(w) /\ doomed' = [doomed EXCEPT ![w] = {}]

ViewsInit == doomed = [w \in Procs |-> {}]

-----------------------------------------------------------------------------
(* toogle_is_linkable *)

Toggled(row) == [row EXCEPT !.is_linkable = ~ @]

\* A page that becomes linkable has no links to lose.
ToggleStart(w, p) ==
    LET row == Toggled(page[p]) IN
    /\ "toggle" \in Ops
    /\ Start(w)
    /\ p \in DOMAIN page
    /\ Go(w, IF row.is_linkable THEN "toggled" ELSE "unlink",
             [pk |-> p, row |-> row])
    /\ UNCHANGED <<page, link, nextPk, doomed>>

\* Wrong variant: the links that leave the page are deleted.
ToggleUnlink_Outgoing(w) ==
    /\ pc[w] = "unlink"
    /\ link' = {l \in link : l[1] # inst[w].pk}
    /\ Go(w, "toggled", inst[w])
    /\ UNCHANGED <<page, nextPk, clock, doomed>>

\* The page is to be not linkable: its incoming links are deleted first.
ToggleUnlink(w) ==
    /\ pc[w] = "unlink"
    /\ link' = {l \in link : l[2] # inst[w].pk}
    /\ Go(w, "toggled", inst[w])
    /\ UNCHANGED <<page, nextPk, clock, doomed>>

\* page.save(): every column of the instance, not only is_linkable.
ToggleSave(w) ==
    /\ pc[w] = "toggled"
    /\ Save(inst[w].pk, inst[w].row)
    /\ Leave(w)
    /\ UNCHANGED <<link, nextPk, clock>>

-----------------------------------------------------------------------------
(* page_delete, site_expunge and site_expunge_all *)

\* assert page.can_be_deleted(): when it fails the request ends there.
DeleteStart(w, p) ==
    /\ "delete" \in Ops
    /\ Start(w)
    /\ p \in DOMAIN page
    /\ can_be_deleted(p)
    /\ Go(w, "delete", [pk |-> p, row |-> page[p]])
    /\ UNCHANGED <<page, link, nextPk, doomed>>

\* The pages named by the form (site_expunge), or the orphans
\* (site_expunge_all), are listed before the loop starts.
ExpungeStart(w, S) ==
    /\ "expunge" \in Ops
    /\ Start(w)
    /\ S # {}
    /\ S \subseteq DOMAIN page
    /\ Go(w, "expunge", NoInstance)
    /\ doomed' = [doomed EXCEPT ![w] = S]
    /\ UNCHANGED <<page, link, nextPk>>

\* Wrong variant: the list made before the loop is trusted.
ExpungeTest_Trusting(w, p) ==
    /\ pc[w] = "expunge"
    /\ p \in doomed[w]
    /\ doomed' = [doomed EXCEPT ![w] = @ \ {p}]
    /\ Go(w, "delete", [NoInstance EXCEPT !.pk = p])
    /\ UNCHANGED <<page, link, nextPk, clock>>

\* One turn of the loop: if page.can_be_deleted(). An orphan by now, or gone.
ExpungeTest(w, p) ==
    /\ pc[w] = "expunge"
    /\ p \in doomed[w]
    /\ doomed' = [doomed EXCEPT ![w] = @ \ {p}]
    /\ IF can_be_deleted(p)
       THEN Go(w, "delete", [NoInstance EXCEPT !.pk = p])
       ELSE UNCHANGED <<pc, inst>>
    /\ UNCHANGED <<page, link, nextPk, clock>>

\* The loop is over.
ExpungeEnd(w) ==
    /\ pc[w] = "expunge"
    /\ doomed[w] = {}
    /\ Leave(w)
    /\ UNCHANGED <<page, link, nextPk, clock>>

\* page.delete(); the loop of expunge, if there is one, goes on.
DeletePage(w) ==
    /\ pc[w] = "delete"
    /\ Delete({inst[w].pk})
    /\ IF doomed[w] = {}
       THEN Leave(w)
       ELSE Go(w, "expunge", NoInstance) /\ UNCHANGED doomed
    /\ UNCHANGED <<nextPk, clock>>

-----------------------------------------------------------------------------
(* reset_site *)

\* site.pages.all().delete()
ResetStart(w) ==
    /\ "reset" \in Ops
    /\ Start(w)
    /\ Delete(DOMAIN page)
    /\ Go(w, "reseed", NoInstance)
    /\ UNCHANGED <<nextPk, doomed>>

\* site.add_page(site.path) -> load_or_create: the SELECT
ResetFind(w) ==
    /\ pc[w] = "reseed"
    /\ IF PagesAt(Seed) = {} THEN Go(w, "reinsert", NoInstance) /\ UNCHANGED doomed
                             ELSE Leave(w)
    /\ UNCHANGED <<page, link, nextPk, clock>>

\* Wrong variant: the seed gets its first key back.
ResetCreate_OldKey(w) ==
    /\ pc[w] = "reinsert"
    /\ page' = Put(1, NewRow(Seed))
    /\ Leave(w)
    /\ UNCHANGED <<link, nextPk, clock>>

\* ... and the INSERT
ResetCreate(w) ==
    /\ pc[w] = "reinsert"
    /\ Insert(NewRow(Seed))
    /\ Leave(w)
    /\ UNCHANGED <<link, clock>>

ViewsStep(w) ==
    \/ \E p \in 1..MaxPk : ToggleStart(w, p)
    \/ ToggleUnlink(w)
    \/ ToggleSave(w)
    \/ \E p \in 1..MaxPk : DeleteStart(w, p)
    \/ \E S \in SUBSET (1..MaxPk) : ExpungeStart(w, S)
    \/ \E p \in 1..MaxPk : ExpungeTest(w, p)
    \/ ExpungeEnd(w)
    \/ DeletePage(w)
    \/ ResetStart(w)
    \/ ResetFind(w)
    \/ ResetCreate(w)
=============================================================================
