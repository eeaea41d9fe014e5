------------------------------ MODULE LinkReports ------------------------------
(***************************************************************************)
(* What the link graph and the orphan report conclude from a finished      *)
(* crawl (InternalLinkOperator in                                          *)
(* src/src/rankrat/operator/internal_links.py).                            *)
(***************************************************************************)
EXTENDS SiteAudit

(* The nodes of the graph. *)
Crawled == {p.url : p \in ToSet(pages)}

OutEdges(p, targets) == {p.url} \X (p.links \cap (targets \ {p.url}))

EdgesToTitled ==                     \* mutant: a page without a title is no target
  UNION {OutEdges(p, {q.url : q \in {q \in ToSet(pages) : q.title # None}}) : p \in ToSet(pages)}

Edges == UNION {OutEdges(p, Crawled) : p \in ToSet(pages)}

Linked == {edge[2] : edge \in Edges}

(* The findings of the orphan report.  `evidence` are the URLs that Search  *)
(* Console or Analytics know, as the provider spells them: they are looked  *)
(* up among the crawled URLs as they are.                                   *)
Orphans(evidence) == ((Crawled \cup evidence) \ {Root}) \ Linked

(* A crawled page that links to an alleged orphan, however that is spelled. *)
Contradicts(p, u) == Normal(u) \in p.links /\ p.url # Normal(u)

-------------------------------------------------------------------------------
(* What can make the orphan report wrong, whatever spellings the providers  *)
(* know.  If a page of a report that is not marked as truncated links to an *)
(* alleged orphan, then the provider or a sitemap spells the orphan in      *)
(* another way than the links do, or the page is at the depth limit, or it  *)
(* has more links than are followed.                                        *)
OrphansExplained ==
  Untruncated => \A u \in Orphans(Spelling), p \in ToSet(pages) :
    Contradicts(p, u) =>
      u \in Variant \/ p.depth >= MaxDepth \/ Cardinality(p.links) > MaxLinks

(* docs/features.md:148 lists "truncation when page/issue/depth limits are  *)
(* hit", and :172 "Crawl truncation is reported, so you know when a graph   *)
(* or orphan result is partial".  So an unmarked report calls no URL an     *)
(* orphan that one of its pages links to, if the provider spells it as the  *)
(* crawl does.  The depth limit does not set the flag: the run audit_depth  *)
(* finds a page at the limit that links to an alleged orphan.               *)
OrphansAreUnlinked ==
  Untruncated => \A u \in Orphans(Url), p \in ToSet(pages) : ~Contradicts(p, u)
===============================================================================
