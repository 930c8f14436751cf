------------------------------ MODULE CheckPage ------------------------------
(***************************************************************************)
(* core.check_page and core._update_links, statement by statement, as run  *)
(* by the check and recheck commands and by the page_check view.           *)
(*                                                                         *)
(* check_page receives a Page instance loaded earlier, asks the server for *)
(* the page (HEAD), saves the whole instance, asks for the body (GET) and  *)
(* brings the table link in line with the links of the body. Everything    *)
(* the server answers is an input, chosen with a disjunct or \E.           *)
(*                                                                         *)
(* _run_plugins, the last call of check_page, writes neither page nor      *)
(* link; its tables are not part of this module.                           *)
(***************************************************************************)
EXTENDS Store

CONSTANT ValidResults  \* what Success.value may hold when is_valid() succeeds:
                       \* "True" (the default of Success, as models.py has
                       \* it) or "response" (what check_page reads)

ASSUME CheckAssumption == ValidResults \subseteq {"True", "response"}

VARIABLE upd   \* upd[w]: the locals of _update_links in process w

Frame == [body : SUBSET Urls,      \* get_all_valid_links(body), without order
          todo : SUBSET Urls,      \* those the loop has not reached
          before : SUBSET Nat,     \* before_links
          after : SUBSET Nat,      \* after_links
          want : Urls,             \* url being looked up by load_or_create
          target : Nat]            \* target_page.pk

NoFrame == [body |-> {}, todo |-> {}, before |-> {}, after |-> {},
            want |-> Seed, target |-> 0]

Finish(w) == Return(w) /\ upd' = [upd EXCEPT ![w] = NoFrame]

CheckInit == upd = [w \in Procs |-> NoFrame]

-----------------------------------------------------------------------------
(* check_page *)

\* What check_page assigns to its instance: on entry, when the page cannot be
\* accepted, and when the HEAD succeeds. The message of an earlier failure
\* stays.
Marked(row) == [row EXCEPT !.checked_at = clock + 1, !.is_checked = TRUE]
Broken(row, code) == [row EXCEPT !.status = code, !.error_message = TRUE]
Answered(row) == [row EXCEPT !.status = 200]

\* Wrong variant: is_checked is not set.
CheckStart_OnlyTime(w, p) ==
    /\ "check" \in Ops
    /\ Start(w)
    /\ p \in DOMAIN page
    /\ Go(w, "head", [pk |-> p, row |-> [page[p] EXCEPT !.checked_at = clock + 1]])
    /\ UNCHANGED <<page, link, nextPk, upd>>

\* The instance is loaded (PageConverter, next_page_to_check) and marked in
\* memory as checked now.
CheckStart(w, p) ==
    /\ "check" \in Ops
    /\ Start(w)
    /\ p \in DOMAIN page
    /\ Go(w, "head", [pk |-> p, row |-> Marked(page[p])])
    /\ UNCHANGED <<page, link, nextPk, upd>>

\* Wrong variant: a page that fails goes back to the queue.
HeadFailure_Requeues(w) ==
    /\ pc[w] = "head"
    /\ Save(inst[w].pk, [Broken(inst[w].row, -1) EXCEPT !.is_checked = FALSE,
                                                       !.checked_at = EPOCH])
    /\ Finish(w)
    /\ UNCHANGED <<link, nextPk, clock>>

\* is_valid() is a Failure: urlopen raised, code -1. The instance is saved.
HeadFailure(w) ==
    /\ pc[w] = "head"
    /\ Save(inst[w].pk, Broken(inst[w].row, -1))
    /\ Finish(w)
    /\ UNCHANGED <<link, nextPk, clock>>

\* is_valid() is Success() and result.value is True: reading
\* response.status_code raises AttributeError before anything is saved.
HeadNoResponse(w) ==
    /\ pc[w] = "head"
    /\ "True" \in ValidResults
    /\ Finish(w)
    /\ UNCHANGED <<page, link, nextPk, clock>>

\* result.value is the response: status and the rest are saved.
HeadSuccess(w) ==
    LET i == [inst[w] EXCEPT !.row = Answered(@)] IN
    /\ pc[w] = "head"
    /\ "response" \in ValidResults
    /\ Save(i.pk, i.row)
    /\ IF SaveFails(i.pk, i.row)
       THEN Finish(w)
       ELSE Go(w, "saved", i) /\ UNCHANGED upd
    /\ UNCHANGED <<link, nextPk, clock>>

\* Not text/html: nothing else to do.
NotHtml(w) ==
    /\ pc[w] = "saved"
    /\ Finish(w)
    /\ UNCHANGED <<page, link, nextPk, clock>>

\* html, but the HEAD was redirected out of the site.
NotLocal(w) ==
    /\ pc[w] = "saved"
    /\ link' = {l \in link : l[1] # inst[w].pk}
    /\ Finish(w)
    /\ UNCHANGED <<page, nextPk, clock>>

\* Wrong variant: the 418 is stored without its message.
InvalidHtml_NoMessage(w) ==
    /\ pc[w] = "saved"
    /\ Save(inst[w].pk, [inst[w].row EXCEPT !.status = 418])
    /\ Finish(w)
    /\ UNCHANGED <<link, nextPk, clock>>

\* The body does not look like html: the instance is saved a second time.
InvalidHtml(w) ==
    /\ pc[w] = "saved"
    /\ Save(inst[w].pk, Broken(inst[w].row, 418))
    /\ Finish(w)
    /\ UNCHANGED <<link, nextPk, clock>>

-----------------------------------------------------------------------------
(* _update_links *)

\* The body has arrived; before_links is read.
ReadBody(w, urls) ==
    /\ pc[w] = "saved"
    /\ Go(w, "links", inst[w])
    /\ upd' = [upd EXCEPT ![w] = [NoFrame EXCEPT !.body = urls, !.todo = urls,
                                     !.before = OutgoingLinks(inst[w].pk)]]
    /\ UNCHANGED <<page, link, nextPk, clock>>

\* One turn of the loop, add_page -> load_or_create: the SELECT.
FindTarget(w, u) ==
    /\ pc[w] = "links"
    /\ u \in upd[w].todo
    /\ \/ \E q \in PagesAt(u) :
            \/ /\ page[q].is_linkable
               /\ Go(w, "link", inst[w])
               /\ upd' = [upd EXCEPT ![w].todo = @ \ {u}, ![w].target = q]
            \/ /\ ~ page[q].is_linkable
               /\ Go(w, "links", inst[w])
               /\ upd' = [upd EXCEPT ![w].todo = @ \ {u}]
       \/ /\ PagesAt(u) = {}
          /\ Go(w, "insert", inst[w])
          /\ upd' = [upd EXCEPT ![w].todo = @ \ {u}, ![w].want = u]
    /\ UNCHANGED <<page, link, nextPk, clock>>

\* load_or_create did not find the page: the INSERT. A page created meanwhile
\* by another process makes it raise.
CreateTarget(w) ==
    /\ pc[w] = "insert"
    /\ Insert(NewRow(upd[w].want))
    /\ IF InsertFails(upd[w].want)
       THEN Finish(w)
       ELSE /\ Go(w, "link", inst[w])
            /\ upd' = [upd EXCEPT ![w].target = nextPk]
    /\ UNCHANGED <<link, clock>>

\* Wrong variant: a link that was already there is not counted in after_links.
AddLink_OnlyNew(w) ==
    /\ pc[w] = "link"
    /\ IF LinkFails(inst[w].pk, upd[w].target)
       THEN Finish(w) /\ UNCHANGED link
       ELSE /\ link' = link \cup {<<inst[w].pk, upd[w].target>>}
            /\ Go(w, "links", inst[w])
            /\ upd' = [upd EXCEPT ![w].after = @ \cup ({upd[w].target} \ upd[w].before)]
    /\ UNCHANGED <<page, nextPk, clock>>

\* Link.objects.get_or_create(from_page=page, to_page=target_page)
AddLink(w) ==
    /\ pc[w] = "link"
    /\ IF LinkFails(inst[w].pk, upd[w].target)
       THEN Finish(w) /\ UNCHANGED link
       ELSE /\ link' = link \cup {<<inst[w].pk, upd[w].target>>}
            /\ Go(w, "links", inst[w])
            /\ upd' = [upd EXCEPT ![w].after = @ \cup {upd[w].target}]
    /\ UNCHANGED <<page, nextPk, clock>>

\* The links that were there before and are not in the body any more go.
RemoveLinks(w) ==
    /\ pc[w] = "links"
    /\ upd[w].todo = {}
    /\ link' = link \ {<<inst[w].pk, q>> : q \in upd[w].before \ upd[w].after}
    /\ Finish(w)
    /\ UNCHANGED <<page, nextPk, clock>>

CheckStep(w) ==
    \/ \E p \in 1..MaxPk : CheckStart(w, p)
    \/ HeadFailure(w)
    \/ HeadNoResponse(w)
    \/ HeadSuccess(w)
    \/ NotHtml(w)
    \/ NotLocal(w)
    \/ InvalidHtml(w)
    \/ \E urls \in SUBSET Urls : ReadBody(w, urls)
    \/ \E u \in Urls : FindTarget(w, u)
    \/ CreateTarget(w)
    \/ AddLink(w)
    \/ RemoveLinks(w)
=============================================================================
