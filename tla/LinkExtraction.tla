--------------------------- MODULE LinkExtraction ---------------------------
(***************************************************************************)
(* From the hrefs of a body to pages: LinkExtractor, is_valid_url,         *)
(* Page.get_all_valid_links, Site.is_local, the robots.txt test and        *)
(* Site.add_page, for one check at a time of a page of one site.           *)
(*                                                                         *)
(* A path is what path.split('/') gives: '/s/a' is <<"", "s", "a">>, '/'   *)
(* is <<"", "">>, 'a' is <<"a">> and '' is <<"">>. A scheme and a netloc   *)
(* are only told apart as the site's own or not. An url of the site is     *)
(* [subpath, params], the columns add_page makes of it. The operators of   *)
(* urllib are modelled without ;params, '.' and '//' in a path.            *)
(***************************************************************************)
EXTENDS SequenceOps, SequencesExt, FiniteSets

CONSTANTS Strings,     \* segments of paths, and parameters
          SitePath,    \* Site.path
          Disallowed,  \* robots.txt: the paths nobody may fetch
          Api,         \* parser.EXCLUDE_PATHS
          Bodies,      \* what the server may answer: sets of references
          MaxPages     \* bound: pages of the site

Blank == ""
Up == ".."

Empty == <<Blank>>
Root == <<Blank, Blank>>
Rooted(path) == Len(path) > 1 /\ path[1] = Blank

\* What an attribute holds, and of which tag.
IsReference(r) ==
    /\ r.tag \in {"a", "link", "img", "script"}
    /\ r.host \in {"none", "own", "foreign"}
    /\ r.path \in Seq(Strings) /\ r.path # <<>>
    /\ r.host # "none" => r.path = Empty \/ Rooted(r.path)
    /\ r.params \in Strings
    /\ r.fragment \in BOOLEAN

ASSUME LinkExtractionAssumption ==
    /\ {Blank, Up} \subseteq Strings
    /\ SitePath \in Seq(Strings) /\ (SitePath = Empty \/ Rooted(SitePath))
    /\ \A b \in Bodies : \A r \in b : IsReference(r)
    /\ MaxPages \in Nat

VARIABLES pages,   \* the pages of the site
          links    \* links of the site, each with the reference it comes from

vars == <<pages, links>>

Seed == [subpath |-> SitePath, params |-> Blank]

Init == pages = {Seed} /\ links = {}

-----------------------------------------------------------------------------
(* urllib *)

Segments(base, path) ==
    LET dir == IF Last(base) = Blank THEN base ELSE Front(base)
        all == dir \o path
    IN  IF Rooted(path) \/ Len(all) = 1 THEN path
        ELSE <<Head(all)>> \o Without(Front(Tail(all)), {Blank}) \o <<Last(all)>>

\* A ".." takes the segment before it, the empty one before the root too.
Resolve(done, seg) ==
    IF seg # Up THEN Append(done, seg) ELSE IF done = <<>> THEN done ELSE Front(done)

\* What the first i segments come to.
Resolved(segs) ==
    LET done[i \in 0 .. Len(segs)] ==
            IF i = 0 THEN <<>> ELSE Resolve(done[i - 1], segs[i])
    IN  done

Normal(segs) ==
    LET done == Resolved(segs)[Len(segs)]
        path == IF Last(segs) = Up THEN Append(done, Blank) ELSE done
    IN  IF path \in {<<>>, Empty} THEN Root ELSE path

\* urljoin
Join(base, r) ==
    CASE r.host # "none" \/ base = [subpath |-> Empty, params |-> Blank] ->
            [subpath |-> r.path, params |-> r.params]
      [] r.host = "none" /\ r.path = Empty ->
            [base EXCEPT !.params = IF r.params = Blank THEN @ ELSE r.params]
      [] OTHER ->
            [subpath |-> Normal(Segments(base.subpath, r.path)), params |-> r.params]

\* urlunparse puts a '/' between a netloc and a path.
Slashed(url) ==
    [url EXCEPT !.subpath = IF @ = Empty \/ Rooted(@) THEN @ ELSE <<Blank>> \o @]

\* RobotFileParser.can_fetch, which only looks at the path.
CanFetch(path) == ~ \E d \in Disallowed : IsPrefix(d, path)

-----------------------------------------------------------------------------
(* models.Page, models.Site *)

\* urljoin(self.site.path, self.subpath)
PathOf(p) ==
    CASE SitePath = Empty -> p.subpath
      [] p.subpath = Empty -> SitePath
      [] OTHER -> Normal(Segments(SitePath, p.subpath))

get_relative_url(p) == [p EXCEPT !.subpath = PathOf(p)]

get_full_url(p) == Slashed(get_relative_url(p))

\* urljoin(self.get_full_url(), link), but for its fragment
FullUrlOf(p, r) == Slashed(Join(get_full_url(p), r))

is_local(r) == r.host # "foreign"

\* Wrong variant: fragments, and nothing else, make a link to oneself.
LinksToItself_Fragment(p, r) == r.host = "none" /\ r.path = Empty /\ r.params = Blank

\* url == self.get_full_url()
LinksToItself(p, r) ==
    is_local(r) /\ ~ r.fragment /\ FullUrlOf(p, r) = get_full_url(p)

\* is_valid_url
IsValidUrl(r) ==
    ~ \E d \in Api : r.host = "none" /\ IsPrefix(d, r.path) /\ Len(r.path) > Len(d)

\* all_links: the filter is for the tag a.
AllLinks(body) == {r \in body : r.tag = "a" => IsValidUrl(r)}

\* Wrong variant: robots.txt is not asked.
ValidLinks_NoRobots(p, body) ==
    {r \in AllLinks(body) : ~ LinksToItself(p, r) /\ is_local(r)}

\* The references get_all_valid_links takes.
ValidLinks(p, body) ==
    {r \in AllLinks(body) : ~ LinksToItself(p, r) /\ is_local(r) /\ CanFetch(r.path)}

\* Wrong variant: the link as it is written.
Target_Raw(p, r) == [subpath |-> r.path, params |-> r.params]

\* Wrong variant: joined to the seed.
Target_FromSeed(p, r) == Join(get_relative_url(Seed), r)

\* What it yields for one of them, and the page add_page finds or creates.
Target(p, r) == Join(get_relative_url(p), r)

\* Wrong variant: links to pages that were found and not saved.
UpdateLinks_NotSaved(p, body) ==
    /\ p \in pages
    /\ pages' = pages
    /\ links' = {l \in links : l.from # p} \cup
                 {[from |-> p, ref |-> r, to |-> Target(p, r)] : r \in ValidLinks(p, body)}

\* _update_links
UpdateLinks(p, body) ==
    LET new == {[from |-> p, ref |-> r, to |-> Target(p, r)] : r \in ValidLinks(p, body)}
    IN
    /\ p \in pages
    /\ pages' = pages \cup {l.to : l \in new}
    /\ Cardinality(pages') <= MaxPages
    /\ links' = {l \in links : l.from # p} \cup new

Next == \E p \in pages, body \in Bodies : UpdateLinks(p, body)

Spec == Init /\ [][Next]_vars

-----------------------------------------------------------------------------
(* Properties *)

\* Where a browser goes for r in p, as an url of the site.
Browsed(p, r) ==
    LET url == FullUrlOf(p, r) IN
    IF url.subpath = Empty THEN [url EXCEPT !.subpath = Root] ELSE url

\* r climbs over the root.
Climbs(p, r) ==
    LET segs == Segments(get_full_url(p).subpath, r.path) IN
    \E i \in DOMAIN segs : Resolved(segs)[i] = <<>>

HasDots(path) == Up \in Range(path)

\* r is an address of the site, which is taken as it is, without a path or with
\* ".." in it.
Raw(r) == r.host = "own" /\ (r.path = Empty \/ HasDots(r.path))

\* And l starts from a page whose path has a root, as all have but those that an
\* address with ".." led to.
Ordinary(l) == ~ Climbs(l.from, l.ref) /\ ~ Raw(l.ref) /\ Rooted(PathOf(l.from))

Urls == [subpath : Seq(Strings) \ {<<>>}, params : Strings]

\* Types.
TypeOK ==
    /\ Seed \in pages /\ pages \subseteq Urls
    /\ \A l \in links : {l.from, l.to} \subseteq pages /\ IsReference(l.ref)

\* However often pages are checked and whatever leads to what, an ordinary link
\* leads to the page whose url the spider will ask for when the browser would:
\* joining with the relative url of the page, storing two columns and building
\* the url again is the same as joining with the full url.
LinksFollowed == \A l \in links : Ordinary(l) => get_full_url(l.to) = Browsed(l.from, l.ref)

\* The seed and the pages ordinary links lead to have different urls.
OneAddress ==
    LET places == {Seed} \cup {l.to : l \in {k \in links : Ordinary(k)}} IN
    \A p, q \in places : get_full_url(p) = get_full_url(q) => p = q

\* A page links to itself only through a fragment.
SelfByFragment == \A l \in links : get_full_url(l.from) = get_full_url(l.to) /\ Ordinary(l)
                     => l.ref.fragment

\* A page that robots.txt excludes is only reached by references that do not
\* begin at the root, or that have ".." in them.
RobotsAtRoot ==
    \A l \in links : ~ CanFetch(PathOf(l.to)) => ~ Rooted(l.ref.path) \/ HasDots(l.ref.path)

\* No page that robots.txt excludes is reached (get_all_valid_links: "o estan
\* excluidos en el robots.txt, no se consideran validas").
RobotsRespected == \A l \in links : CanFetch(get_full_url(l.to).subpath)

\* Every url is one page (load_or_create: "nunca crear la misma pagina dos
\* veces en la base de datos").
NeverTwice == \A p, q \in pages : get_full_url(p) = get_full_url(q) => p = q
=============================================================================
