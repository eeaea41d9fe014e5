------------------------------- MODULE SiteAudit -------------------------------
(***************************************************************************)
(* The bounded crawl behind site_audit, the monitors and the link reports  *)
(* (SiteAuditService in src/src/rankrat/services/site_audit.py, with the   *)
(* fetcher of providers/site_fetch.py).                                    *)
(*                                                                         *)
(* One action is the work between two awaits, that is, one fetch and what  *)
(* follows it.  The site is not fixed in advance: what a fetch finds is    *)
(* chosen when it happens, so the site may change during the crawl.        *)
(*                                                                         *)
(* A URL is a member of Url once it is normalised.  Links are, before they *)
(* enter the queue; locations in a sitemap are not (only fetch normalises  *)
(* them), so a sitemap can spell a URL in another way (a Variant).         *)
(*                                                                         *)
(* Lists are chosen in the form in which the code uses them: the links of  *)
(* a page as a set, the part of them that is followed (the first MaxLinks) *)
(* and an order for those that are new to the queue; likewise a sitemap.   *)
(* The queue is filled while the sitemaps are read; the code collects the  *)
(* same sequence in `seeds` and drops repetitions at the end.              *)
(***************************************************************************)
EXTENDS Naturals, Sequences, SequencesExt, FiniteSetsExt

CONSTANTS
  Url,          \* normalised URLs of the site
  Root,         \* request.site_url
  Variant,      \* other spellings, found in sitemaps only
  Of,           \* the URL a variant spells
  Poison,       \* what fetch refuses with another error than SiteFetchError:
                \* a fragment, a length beyond the limit
  Sitemap,      \* locations of sitemaps
  Default,      \* /sitemap.xml
  Title, None,  \* page titles; no title
  MaxPages, MaxDepth,  \* the request's bounds
  MaxLinks,     \* MAX_SITE_AUDIT_LINKS_PER_PAGE
  MaxSitemaps,  \* MAX_SITE_AUDIT_SITEMAPS
  MaxIssues,    \* MAX_SITE_AUDIT_ISSUES
  MaxListed,    \* bound: locations taken from all sitemaps
  MaxFound,     \* bound: links on all pages
  MaxFaults     \* bound: problems of one page

Spelling == Url \cup Variant

ASSUME SiteAuditAssumption ==
  /\ Root \in Url /\ Default \in Sitemap
  /\ IsFiniteSet(Url) /\ IsFiniteSet(Variant) /\ IsFiniteSet(Sitemap)
  /\ Url \cap Variant = {} /\ Sitemap \cap Spelling = {}
  /\ Of \in [Variant -> Url]
  /\ Poison \subseteq (Spelling \cup Sitemap) \ {Root, Default}
  /\ None \notin Title
  /\ MaxPages \in Nat \ {0} /\ MaxDepth \in Nat /\ MaxSitemaps \in Nat \ {0}
  /\ MaxLinks \in Nat /\ MaxIssues \in Nat /\ MaxListed \in Nat
  /\ MaxFound \in Nat /\ MaxFaults \in Nat

VARIABLES
  phase,      \* where the call is: its next fetch, or how it ended
  sitemaps,   \* sitemaps still to be read
  listed,     \* sitemap_seeds
  queue,      \* deque of spellings with their depths
  queued,     \* every spelling that ever entered it
  pages,      \* the pages of the report
  issues,     \* its issues
  truncated   \* its flag

vars == <<phase, sitemaps, listed, queue, queued, pages, issues, truncated>>

Issue == [code : {"invalid_sitemap_xml", "fetch_failed", "page", "duplicate_title"},
          at : Spelling \cup Sitemap]

(* A SiteAuditPage.  `asked` is the spelling that was in the queue, `url`  *)
(* the one in the report; `followed` are the links the crawl goes on with. *)
Page == [asked : Spelling, url : Spelling, title : Title \cup {None},
         links : SUBSET Url, followed : SUBSET Url, count : Nat, depth : Nat]

Init ==
  /\ phase = "robots"
  /\ sitemaps = <<>>
  /\ listed = {}
  /\ queue = <<[at |-> Root, depth |-> 0]>>
  /\ queued = {Root}
  /\ pages = <<>>
  /\ issues = <<>>
  /\ truncated = FALSE

-------------------------------------------------------------------------------
(* normalize_public_https_audit_url, in fetch. *)
Normal(s) == IF s \in Variant THEN Of[s] ELSE s

(* An exception that audit does not catch. *)
Raise ==
  /\ phase' = "raised"
  /\ UNCHANGED <<sitemaps, listed, queue, queued, pages, issues, truncated>>

(* robots.txt, or nothing if it cannot be fetched or has another status    *)
(* than 200: /sitemap.xml comes first.                                     *)
DiscoverSitemaps ==
  /\ phase = "robots"
  /\ \E others \in SUBSET (Sitemap \ {Default}) :
       /\ Cardinality(others) < MaxSitemaps
       /\ \E order \in SetToSeqs(others) : sitemaps' = <<Default>> \o order
  /\ phase' = "sitemaps"
  /\ UNCHANGED <<listed, queue, queued, pages, issues, truncated>>

NextSitemap ==
  /\ sitemaps' = Tail(sitemaps)
  /\ phase' = IF Tail(sitemaps) = <<>> THEN "crawl" ELSE "sitemaps"

Entries(order, depth) == [i \in DOMAIN order |-> [at |-> order[i], depth |-> depth]]

(* Unreachable, not 200, or with a document type declaration. *)
SitemapInvalid ==
  /\ phase = "sitemaps" /\ Head(sitemaps) \notin Poison
  /\ NextSitemap
  /\ issues' = Append(issues, [code |-> "invalid_sitemap_xml", at |-> Head(sitemaps)])
  /\ UNCHANGED <<listed, queue, queued, pages, truncated>>

SitemapRead ==
  /\ phase = "sitemaps" /\ Head(sitemaps) \notin Poison
  /\ NextSitemap
  /\ \E locations \in SUBSET Spelling :
       /\ Cardinality(locations) <= MaxPages /\ Cardinality(listed \cup locations) <= MaxListed
       /\ listed' = listed \cup locations
       /\ queued' = queued \cup locations
       /\ \E order \in SetToSeqs(locations \ queued) : queue' = queue \o Entries(order, 0)
  /\ UNCHANGED <<pages, issues, truncated>>

SitemapRaises ==
  /\ phase = "sitemaps" /\ Head(sitemaps) \in Poison
  /\ Raise

-------------------------------------------------------------------------------
(* _duplicate_title_issues; their order is left open. *)
DuplicateTitles(ps) ==
  LET Shared(p) == p.title # None /\ \E q \in ToSet(ps) : q.asked # p.asked /\ q.title = p.title
  IN  SetToSeq({[code |-> "duplicate_title", at |-> p.asked] : p \in {p \in ToSet(ps) : Shared(p)}})

(* issues[:MAX_SITE_AUDIT_ISSUES] *)
Bounded(found) == IF Len(found) > MaxIssues THEN SubSeq(found, 1, MaxIssues) ELSE found

TurnCountsEarly(q, ps, found) ==     \* mutant: the flag forgets the duplicate titles
  /\ queue' = q /\ pages' = ps
  /\ IF q # <<>> /\ Len(ps) < MaxPages
     THEN issues' = found /\ UNCHANGED <<phase, truncated>>
     ELSE /\ phase' = "done"
          /\ issues' = Bounded(found \o DuplicateTitles(ps))
          /\ truncated' = (q # <<>> \/ Len(found) > MaxIssues)

TurnIgnoresQueue(q, ps, found) ==    \* mutant: only the issue limit counts
  /\ queue' = q /\ pages' = ps
  /\ IF q # <<>> /\ Len(ps) < MaxPages
     THEN issues' = found /\ UNCHANGED <<phase, truncated>>
     ELSE /\ phase' = "done"
          /\ issues' = Bounded(found \o DuplicateTitles(ps))
          /\ truncated' = (Len(found \o DuplicateTitles(ps)) > MaxIssues)

(* The end of a turn of the crawl's loop: the next turn, or the report. *)
Turn(q, ps, found) ==
  /\ queue' = q /\ pages' = ps
  /\ IF q # <<>> /\ Len(ps) < MaxPages
     THEN issues' = found /\ UNCHANGED <<phase, truncated>>
     ELSE LET all == found \o DuplicateTitles(ps) IN
          /\ phase' = "done"
          /\ issues' = Bounded(all)
          /\ truncated' = (q # <<>> \/ Len(all) > MaxIssues)

EnqueuedFirst(q, new) == new \o q     \* mutant: extendleft() for append()

Enqueued(q, new) == q \o new

RememberedNever(links) == queued      \* mutant: queued.add(link) is missing

Remembered(links) == queued \cup links

Visiting == phase = "crawl" /\ Head(queue).at \notin Poison

(* SiteFetchError: the page is reported under the spelling it was asked by. *)
Unreachable ==
  LET e == Head(queue) IN
  /\ Visiting
  /\ Turn(Tail(queue),
          Append(pages, [asked |-> e.at, url |-> e.at, title |-> None, links |-> {},
                         followed |-> {}, count |-> 1, depth |-> e.depth]),
          Append(issues, [code |-> "fetch_failed", at |-> e.at]))
  /\ UNCHANGED <<sitemaps, listed, queued>>

LinksFound == UNION {{p.asked} \X p.links : p \in ToSet(pages)}

(* What _audit_fetched_page makes of an answer.  A status other than 200,  *)
(* or no HTML, is one issue without title and links; a document without a  *)
(* title has at least that issue.                                          *)
Parsed ==
  {d \in [title : Title \cup {None}, links : SUBSET Url, faults : 0..MaxFaults] :
     d.title = None => d.faults > 0}

PageIssues(url, n) == [i \in 1..n |-> [code |-> "page", at |-> url]]

(* The first MaxLinks links, in all the ways a page may order them. *)
FirstLinks(links) ==
  IF Cardinality(links) <= MaxLinks THEN {links} ELSE kSubset(MaxLinks, links)

(* The page is parsed; its links are followed unless it is at the limit of *)
(* depth.                                                                  *)
Visit ==
  LET e == Head(queue) IN
  /\ Visiting
  /\ \E d \in Parsed : \E followed \in IF e.depth < MaxDepth THEN FirstLinks(d.links) ELSE {{}} :
       /\ Cardinality(d.links) + Cardinality(LinksFound) <= MaxFound
       /\ queued' = Remembered(followed)
       /\ \E order \in SetToSeqs(followed \ queued) :
            Turn(Enqueued(Tail(queue), Entries(order, e.depth + 1)),
                 Append(pages, [asked |-> e.at, url |-> Normal(e.at), title |-> d.title, links |-> d.links,
                                followed |-> followed, count |-> d.faults, depth |-> e.depth]),
                 issues \o PageIssues(Normal(e.at), d.faults))
  /\ UNCHANGED <<sitemaps, listed>>

(* fetch refuses the URL, or the page holds a link that urljoin refuses.   *)
VisitRaises ==
  /\ phase = "crawl"
  /\ Raise

-------------------------------------------------------------------------------
Next ==
  \/ DiscoverSitemaps
  \/ SitemapInvalid \/ SitemapRead \/ SitemapRaises
  \/ Unreachable \/ Visit \/ VisitRaises

Spec == Init /\ [][Next]_vars

-------------------------------------------------------------------------------
(* Properties. *)

(* Nothing is fetched twice, however pages link to each other while the    *)
(* crawl goes on, unless a sitemap spells a URL in another way than the    *)
(* links do.                                                               *)
FetchedOnce ==
  \A i, j \in DOMAIN pages :
    i # j /\ pages[i].url = pages[j].url => {pages[i].asked, pages[j].asked} \cap Variant # {}

(* The depth a page is reported at is its distance from the root and the   *)
(* sitemaps' pages over the links that the crawl followed.                 *)
ShortestDepth ==
  /\ \A i \in DOMAIN pages :
       pages[i].depth > 0 =>
         \E j \in 1..(i - 1) : /\ pages[i].asked \in pages[j].followed
                              /\ pages[i].depth = pages[j].depth + 1
  /\ \A i, j \in DOMAIN pages :
       pages[i].asked \in pages[j].followed => pages[i].depth <= pages[j].depth + 1

Untruncated == phase = "done" /\ ~truncated

(* A report that is not marked as truncated has a page for the root, for   *)
(* every location that was taken from a sitemap and for every link that is *)
(* within the depth and the links-per-page limit.                          *)
CompleteWithinLimits ==
  Untruncated =>
    /\ \A s \in {Root} \cup listed : \E p \in ToSet(pages) : p.asked = s
    /\ \A p \in ToSet(pages) : \A l \in p.followed : \E q \in ToSet(pages) : q.asked = l

(* ... and names every page that has a problem, and both pages of every    *)
(* pair with one title, although the duplicates are found last and the     *)
(* list of issues is cut.                                                  *)
NothingDropped ==
  Untruncated =>
    \A p \in ToSet(pages) :
      /\ p.count > 0 => \E i \in ToSet(issues) : i.code \in {"page", "fetch_failed"} /\ i.at = p.url
      /\ \A q \in ToSet(pages) :
           p.asked # q.asked /\ p.title # None /\ p.title = q.title =>
             [code |-> "duplicate_title", at |-> p.asked] \in ToSet(issues)
===============================================================================
