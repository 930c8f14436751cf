------------------------------ MODULE SiteSpec ------------------------------
(***************************************************************************)
(* What the tables of a site promise to whoever reads them: a set of pages *)
(* that are queued, right or broken, the links between them, and the few   *)
(* ways in which these change. No keys, no times, no processes: every      *)
(* operation takes effect on one page at a time. Spidercheck implements    *)
(* this as long as one operation runs at a time (Spidercheck!Implements).  *)
(***************************************************************************)
CONSTANTS Urls, Seed

VARIABLES pages,   \* set of records, one of a url
          edges    \* set of <<url, url>>

specVars == <<pages, edges>>

\* queued: never tried; right and broken: by the last attempt.
Page == [url : Urls, state : {"queued", "right", "broken"}, linkable : BOOLEAN]

Queued(u) == [url |-> u, state |-> "queued", linkable |-> TRUE]

SpecInit ==
    /\ pages = {Queued(Seed)}
    /\ edges = {}

-----------------------------------------------------------------------------
Known(u) == \E r \in pages : r.url = u

Replace(r, s) == pages' = (pages \ {r}) \cup {s}

\* A url that was not known joins the queue.
Find(u) ==
    /\ ~ Known(u)
    /\ pages' = pages \cup {Queued(u)}
    /\ UNCHANGED edges

\* A page is tried, and is not queued any more.
Attempt(r, result) ==
    /\ Replace(r, [r EXCEPT !.state = result])
    /\ UNCHANGED edges

\* Links to a page may be wanted or not; a page whose links become unwanted
\* has none.
Toggle(r) ==
    /\ r.linkable => \A e \in edges : e[2] # r.url
    /\ Replace(r, [r EXCEPT !.linkable = ~ @])
    /\ UNCHANGED edges

\* A link of a known page to a page that wants links.
Connect(r, s) ==
    /\ s.linkable
    /\ edges' = edges \cup {<<r.url, s.url>>}
    /\ UNCHANGED pages

\* Links of one page go.
DisconnectFrom(u) ==
    /\ edges' \subseteq edges
    /\ \A e \in edges \ edges' : e[1] = u
    /\ UNCHANGED pages

\* All links to one page go.
DisconnectTo(u) ==
    /\ edges' = {e \in edges : e[2] # u}
    /\ UNCHANGED pages

\* A page that no page links to goes, with its own links.
Remove(r) ==
    /\ \A e \in edges : e[2] # r.url
    /\ pages' = pages \ {r}
    /\ edges' = {e \in edges : e[1] # r.url}

\* Everything goes.
Clear == pages' = {} /\ edges' = {}

SpecNext ==
    \/ \E u \in Urls : Find(u) \/ DisconnectFrom(u) \/ DisconnectTo(u)
    \/ \E r \in pages : \/ \E result \in {"right", "broken"} : Attempt(r, result)
                        \/ Toggle(r)
                        \/ \E s \in pages : Connect(r, s)
                        \/ Remove(r)
    \/ Clear

SiteSpec == SpecInit /\ [][SpecNext]_specVars
=============================================================================
