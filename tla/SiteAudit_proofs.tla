--------------------------- MODULE SiteAudit_proofs ---------------------------
(* The crawl of SiteAudit, for sites of any size and any limits: nothing is  *)
(* fetched twice, depths are distances, an unmarked report is complete, with *)
(* its pages and with what is wrong with them; and the orphan report made of *)
(* it is wrong only for a limit of the crawl or for a provider's spelling.   *)
EXTENDS LinkReports, FiniteSetTheorems, TLAPS

Entry == [at : Spelling, depth : Nat]

Shape ==
  /\ queue \in Seq(Entry) /\ pages \in Seq(Page)
  /\ queued \in SUBSET Spelling /\ listed \in SUBSET Spelling

(* What is in the queue or in the report was queued, once. *)
Once ==
  /\ \A i \in DOMAIN queue : queue[i].at \in queued
  /\ \A i \in DOMAIN pages : pages[i].asked \in queued
  /\ \A i, j \in DOMAIN queue : queue[i].at = queue[j].at => i = j
  /\ \A i, j \in DOMAIN pages : pages[i].asked = pages[j].asked => i = j
  /\ \A i \in DOMAIN queue, j \in DOMAIN pages : queue[i].at # pages[j].asked

Named == \A i \in DOMAIN pages : pages[i].url \in {pages[i].asked, Normal(pages[i].asked)}

(* What was queued is still in the queue, or in the report. *)
Kept ==
  /\ Root \in queued /\ listed \subseteq queued
  /\ \A i \in DOMAIN pages : pages[i].followed \subseteq queued
  /\ \A s \in queued : \/ \E i \in DOMAIN queue : queue[i].at = s
                       \/ \E i \in DOMAIN pages : pages[i].asked = s

(* The queue holds at most two levels, the shallower one first. *)
Levels ==
  /\ \A i, j \in DOMAIN queue :
       i < j => queue[i].depth <= queue[j].depth /\ queue[j].depth <= queue[i].depth + 1
  /\ \A i \in DOMAIN pages, j \in DOMAIN queue : pages[i].depth <= queue[j].depth

(* Distances, of the pages and of what is queued. *)
Distances ==
  /\ \A i \in DOMAIN queue :
       queue[i].depth > 0 => \E j \in DOMAIN pages : /\ queue[i].at \in pages[j].followed
                                                     /\ queue[i].depth = pages[j].depth + 1
  /\ \A i \in DOMAIN queue, j \in DOMAIN pages :
       queue[i].at \in pages[j].followed => queue[i].depth <= pages[j].depth + 1
  /\ ShortestDepth

Stages ==
  /\ phase \in {"robots", "sitemaps"} =>
       pages = <<>> /\ \A i \in DOMAIN queue : queue[i].depth = 0
  /\ phase = "crawl" => queue # <<>>
  /\ Untruncated => queue = <<>>

CrawlInv == Shape /\ Once /\ Named /\ Kept /\ Levels /\ Distances /\ Stages

-------------------------------------------------------------------------------
(* The two ways the queue changes: locations of a sitemap join it, or its    *)
(* head becomes a page and the page's new links join it.                     *)

Lists(order, S) ==
  /\ order \in Seq(S)
  /\ \A i, j \in DOMAIN order : order[i] = order[j] => i = j
  /\ \A s \in S : \E i \in DOMAIN order : order[i] = s

LEMMA OrdersList ==
  ASSUME NEW S \in SUBSET Spelling, NEW order \in SetToSeqs(S)
  PROVE  Lists(order, S)
<1>1. IsFiniteSet(S) /\ Cardinality(S) \in Nat
  <2>1. IsFiniteSet(Spelling)
    <3>1. IsFiniteSet(Url) /\ IsFiniteSet(Variant)
      BY SiteAuditAssumption
    <3>2. QED
      BY <3>1, FS_Union DEF Spelling
  <2>2. QED
    BY <2>1, FS_Subset, FS_CardinalityType
<1>2. /\ order \in [1..Cardinality(S) -> S]
      /\ \A i, j \in 1..Cardinality(S) : i # j => order[i] # order[j]
  BY DEF SetToSeqs
<1>3. order \in Seq(S) /\ DOMAIN order = 1..Cardinality(S)
  BY <1>1, <1>2
<1>4. IsFiniteSet(1..Cardinality(S)) /\ Cardinality(1..Cardinality(S)) = Cardinality(S)
  BY <1>1, FS_Interval
<1>5. order \in Injection(1..Cardinality(S), S)
  BY <1>2 DEF Injection, IsInjective
<1>6. order \in Surjection(1..Cardinality(S), S)
  BY <1>1, <1>4, <1>5, FS_Injection
<1>7. QED
  BY <1>2, <1>3, <1>6 DEF Lists, Surjection

LEMMA Concatenated ==
  ASSUME NEW q \in Seq(Entry), NEW e \in Seq(Entry)
  PROVE  /\ q \o e \in Seq(Entry) /\ Len(q \o e) = Len(q) + Len(e)
         /\ DOMAIN (q \o e) = 1..(Len(q) + Len(e))
         /\ \A i \in 1..Len(q) : (q \o e)[i] = q[i]
         /\ \A i \in 1..Len(e) : (q \o e)[Len(q) + i] = e[i]
  OBVIOUS

LEMMA Joined ==
  ASSUME NEW q \in Seq(Entry), NEW order \in Seq(Spelling), NEW d \in Nat
  PROVE  /\ q \o Entries(order, d) \in Seq(Entry)
         /\ DOMAIN (q \o Entries(order, d)) = 1..(Len(q) + Len(order))
         /\ \A i \in 1..Len(q) : (q \o Entries(order, d))[i] = q[i]
         /\ \A i \in 1..Len(order) :
              (q \o Entries(order, d))[Len(q) + i] = [at |-> order[i], depth |-> d]
<1>1. order \in Seq(Spelling)
  OBVIOUS
<1>2. Entries(order, d) \in Seq(Entry) /\ Len(Entries(order, d)) = Len(order)
  <2>1. DOMAIN order = 1..Len(order) /\ Len(order) \in Nat
    BY <1>1
  <2>2. \A i \in 1..Len(order) : [at |-> order[i], depth |-> d] \in Entry
    BY <1>1 DEF Entry
  <2>3. Entries(order, d) = [i \in 1..Len(order) |-> [at |-> order[i], depth |-> d]]
    BY <2>1 DEF Entries
  <2>4. Entries(order, d) \in [1..Len(order) -> Entry]
    BY <2>2, <2>3
  <2>5. QED
    BY <2>1, <2>4
<1>3. \A i \in 1..Len(order) : Entries(order, d)[i] = [at |-> order[i], depth |-> d]
  BY <1>1 DEF Entries
<1> DEFINE e == Entries(order, d)
<1>4. /\ e \in Seq(Entry) /\ Len(e) = Len(order) /\ Len(order) \in Nat
      /\ \A i \in 1..Len(e) : e[i] = [at |-> order[i], depth |-> d]
  BY <1>1, <1>2, <1>3
<1> HIDE DEF e
<1>5. /\ q \o e \in Seq(Entry) /\ Len(q \o e) = Len(q) + Len(e)
      /\ DOMAIN (q \o e) = 1..(Len(q) + Len(e))
      /\ \A i \in 1..Len(q) : (q \o e)[i] = q[i]
      /\ \A i \in 1..Len(e) : (q \o e)[Len(q) + i] = e[i]
  <2>1. e \in Seq(Entry)
    BY <1>4
  <2>2. QED
    BY <2>1, Concatenated
<1>6. QED
  BY <1>4, <1>5 DEF e

(* What a turn of the crawl does. *)
LEMMA Shifted ==
  ASSUME NEW q \in Seq(Entry), q # <<>>
  PROVE  /\ Tail(q) \in Seq(Entry) /\ Len(Tail(q)) = Len(q) - 1 /\ Len(q) \in Nat \ {0}
         /\ \A i \in 1..(Len(q) - 1) : Tail(q)[i] = q[i + 1]
         /\ Head(q) = q[1] /\ DOMAIN q = 1..Len(q)
  OBVIOUS

LEMMA Grown ==
  ASSUME NEW ps \in Seq(Page), NEW p \in Page, NEW r, r = Append(ps, p)
  PROVE  /\ r \in Seq(Page) /\ Len(r) = Len(ps) + 1 /\ Len(ps) \in Nat
         /\ DOMAIN r = 1..(Len(ps) + 1) /\ DOMAIN ps = 1..Len(ps)
         /\ \A i \in 1..Len(ps) : r[i] = ps[i]
         /\ r[Len(ps) + 1] = p
  OBVIOUS

-------------------------------------------------------------------------------
(* One turn: the head of the queue becomes page p, `order` joins the queue.  *)
Turned(p, order) ==
  /\ queue # <<>>
  /\ p \in Page /\ p.asked = Head(queue).at /\ p.depth = Head(queue).depth
  /\ p.url \in {p.asked, Normal(p.asked)}
  /\ Lists(order, p.followed \ queued)
  /\ queue' = Tail(queue) \o Entries(order, p.depth + 1)
  /\ pages' = Append(pages, p)
  /\ queued' = queued \cup p.followed
  /\ listed' = listed

LEMMA TurnKeeps ==
  ASSUME CrawlInv, NEW p, NEW order, Turned(p, order)
  PROVE  Shape' /\ Once' /\ Named' /\ Kept' /\ Levels' /\ Distances'
<1> DEFINE n == Len(queue)
           m == Len(order)
           k == Len(pages)
<1>1. /\ queue \in Seq(Entry) /\ pages \in Seq(Page) /\ queued \in SUBSET Spelling
      /\ p \in Page /\ p.followed \in SUBSET Spelling /\ p.depth \in Nat /\ p.asked \in Spelling
  BY DEF CrawlInv, Shape, Turned, Page, Spelling
<1>2. /\ n \in Nat \ {0} /\ Tail(queue) \in Seq(Entry) /\ Len(Tail(queue)) = n - 1
      /\ \A i \in 1..(n - 1) : Tail(queue)[i] = queue[i + 1]
      /\ DOMAIN queue = 1..n /\ p.asked = queue[1].at /\ p.depth = queue[1].depth
  BY <1>1, Shifted DEF Turned
<1>3. /\ m \in Nat /\ DOMAIN order = 1..m
      /\ \A i \in 1..m : order[i] \in p.followed \ queued
      /\ \A i, j \in 1..m : order[i] = order[j] => i = j
      /\ \A s \in p.followed \ queued : \E i \in 1..m : order[i] = s
  BY DEF Turned, Lists
<1>4. /\ queue' \in Seq(Entry) /\ DOMAIN queue' = 1..(n - 1 + m)
      /\ \A i \in 1..(n - 1) : queue'[i] = queue[i + 1]
      /\ \A i \in 1..m : queue'[n - 1 + i] = [at |-> order[i], depth |-> p.depth + 1]
  <2>1. order \in Seq(Spelling)
    BY <1>1 DEF Turned, Lists
  <2>2. PICK d \in Nat : d = p.depth + 1
    BY <1>1
  <2>3. /\ queue' \in Seq(Entry) /\ DOMAIN queue' = 1..(Len(Tail(queue)) + Len(order))
        /\ \A i \in 1..Len(Tail(queue)) : queue'[i] = Tail(queue)[i]
        /\ \A i \in 1..Len(order) :
             queue'[Len(Tail(queue)) + i] = [at |-> order[i], depth |-> d]
    <3>1. queue' = Tail(queue) \o Entries(order, d)
      BY <2>2 DEF Turned
    <3>2. QED
      <4>1. /\ Tail(queue) \o Entries(order, d) \in Seq(Entry)
            /\ DOMAIN (Tail(queue) \o Entries(order, d)) = 1..(Len(Tail(queue)) + Len(order))
            /\ \A i \in 1..Len(Tail(queue)) : (Tail(queue) \o Entries(order, d))[i] = Tail(queue)[i]
            /\ \A i \in 1..Len(order) : (Tail(queue) \o Entries(order, d))[Len(Tail(queue)) + i]
                                           = [at |-> order[i], depth |-> d]
        BY <1>2, <2>1, Joined
      <4>2. QED
        BY <3>1, <4>1
  <2>4. QED
    BY <1>2, <2>2, <2>3
<1>5. /\ pages' \in Seq(Page) /\ k \in Nat /\ DOMAIN pages' = 1..(k + 1) /\ DOMAIN pages = 1..k
      /\ \A i \in 1..k : pages'[i] = pages[i]
      /\ pages'[k + 1] = p
  BY <1>1, Grown DEF Turned
<1>6. /\ \A i \in 1..n : queue[i].at \in Spelling /\ queue[i].depth \in Nat
      /\ \A i \in 1..k : pages[i].depth \in Nat
  <2>1. \A i \in 1..n : queue[i] \in Entry
    BY <1>1
  <2>2. \A i \in 1..k : pages[i] \in Page
    BY <1>1
  <2>3. QED
    BY <2>1, <2>2 DEF Entry, Page
<1> HIDE DEF n, m, k
(* Where the members of the new queue come from. *)
<1>7. \A i \in DOMAIN queue' :
        \/ i \in 1..(n - 1) /\ i + 1 \in 2..n /\ queue'[i] = queue[i + 1]
        \/ /\ i - (n - 1) \in 1..m
           /\ queue'[i] = [at |-> order[i - (n - 1)], depth |-> p.depth + 1]
  <2> SUFFICES ASSUME NEW i \in DOMAIN queue', ~(i \in 1..(n - 1))
               PROVE  /\ i - (n - 1) \in 1..m
                      /\ queue'[i] = [at |-> order[i - (n - 1)], depth |-> p.depth + 1]
    <3>1. \A g \in 1..(n - 1) : g + 1 \in 2..n
      BY <1>2
    <3>2. QED
      BY <1>4, <3>1
  <2>1. i - (n - 1) \in 1..m /\ n - 1 + (i - (n - 1)) = i
    BY <1>2, <1>3, <1>4
  <2>2. QED
    BY <1>4, <2>1
<1>8. \A i \in DOMAIN pages' : pages'[i].depth \in Nat /\ pages'[i].depth <= p.depth
  <2>1. 1 \in 1..n
    BY <1>2
  <2>2. \A g \in 1..k : pages[g].depth \in Nat /\ pages[g].depth <= p.depth
    BY <1>2, <1>5, <1>6, <2>1 DEF CrawlInv, Levels
  <2>3. ASSUME NEW i \in DOMAIN pages'
        PROVE  pages'[i].depth \in Nat /\ pages'[i].depth <= p.depth
    <3>1. CASE i = k + 1
      BY <1>1, <1>5, <3>1
    <3>2. CASE i # k + 1
      <4>1. i \in 1..k /\ pages'[i] = pages[i]
        BY <1>5, <3>2
      <4>2. QED
        BY <2>2, <4>1
    <3>3. QED
      BY <3>1, <3>2
  <2>4. QED
    BY <2>3
<1>9. Shape'
  BY <1>1, <1>4, <1>5 DEF CrawlInv, Shape, Turned
<1>10. Once'
  <2>1. \A i \in DOMAIN queue' : queue'[i].at \in queued'
    <3>1. \A g \in 2..n : queue[g].at \in queued
      BY <1>2 DEF CrawlInv, Once
    <3>2. \A g \in 1..m : order[g] \in queued'
      BY <1>3 DEF Turned
    <3>3. queued \subseteq queued'
      BY DEF Turned
    <3>4. QED
      BY <1>7, <3>1, <3>2, <3>3
  <2>2. \A i \in DOMAIN pages' : pages'[i].asked \in queued'
    BY <1>2, <1>5 DEF CrawlInv, Once, Turned
  <2>3. \A i, j \in DOMAIN queue' : queue'[i].at = queue'[j].at => i = j
    <3> SUFFICES ASSUME NEW i \in DOMAIN queue', NEW j \in DOMAIN queue', queue'[i].at = queue'[j].at
                 PROVE  i = j
      OBVIOUS
    <3>1. i \in Nat /\ j \in Nat
      BY <1>2, <1>3, <1>4
    <3>2. /\ \A g \in 2..n : queue[g].at \in queued
          /\ \A g, h \in 2..n : queue[g].at = queue[h].at => g = h
      BY <1>2 DEF CrawlInv, Once
    <3>3. CASE i \in 1..(n - 1) /\ j \in 1..(n - 1)
      <4>1. /\ i + 1 \in 2..n /\ queue'[i] = queue[i + 1]
            /\ j + 1 \in 2..n /\ queue'[j] = queue[j + 1]
        BY <1>2, <1>4, <3>1, <3>3
      <4>2. i + 1 = j + 1
        BY <3>2, <4>1
      <4>3. QED
        BY <3>1, <4>2
    <3>4. CASE i \notin 1..(n - 1) /\ j \notin 1..(n - 1)
      <4>1. /\ i - (n - 1) \in 1..m /\ queue'[i].at = order[i - (n - 1)]
            /\ j - (n - 1) \in 1..m /\ queue'[j].at = order[j - (n - 1)]
        BY <1>7, <3>4
      <4>2. i - (n - 1) = j - (n - 1)
        BY <1>3, <4>1
      <4>3. QED
        BY <1>2, <3>1, <4>2
    <3>5. ASSUME NEW g \in DOMAIN queue', NEW h \in DOMAIN queue', g \in 1..(n - 1), h \notin 1..(n - 1)
          PROVE  queue'[g].at # queue'[h].at
      <4>1. g + 1 \in 2..n /\ queue'[g] = queue[g + 1]
        BY <1>2, <1>4, <3>5
      <4>2. h - (n - 1) \in 1..m /\ queue'[h].at = order[h - (n - 1)]
        BY <1>7, <3>5
      <4>3. queue'[g].at \in queued /\ queue'[h].at \notin queued
        BY <1>3, <3>2, <4>1, <4>2
      <4>4. QED
        BY <4>3
    <3>6. QED
      BY <3>3, <3>4, <3>5
  <2>4. \A i, j \in DOMAIN pages' : pages'[i].asked = pages'[j].asked => i = j
    BY <1>2, <1>5 DEF CrawlInv, Once
  <2>5. \A i \in DOMAIN queue', j \in DOMAIN pages' : queue'[i].at # pages'[j].asked
    <3> SUFFICES ASSUME NEW i \in DOMAIN queue', NEW j \in DOMAIN pages'
                 PROVE  queue'[i].at # pages'[j].asked
      OBVIOUS
    <3>1. pages'[j].asked \in queued /\ \A g \in 2..n : queue[g].at # pages'[j].asked
      <4>1. 1 \in 1..n /\ \A g \in 2..n : g \in 1..n /\ g # 1
        BY <1>2
      <4>2. CASE j \in 1..k
        <5>1. pages'[j] = pages[j] /\ j \in DOMAIN pages
          BY <1>5, <4>2
        <5>2. QED
          BY <1>2, <4>1, <5>1 DEF CrawlInv, Once
      <4>3. CASE j = k + 1
        <5>1. pages'[j].asked = queue[1].at
          BY <1>2, <1>5, <4>3
        <5>2. QED
          BY <1>2, <4>1, <5>1 DEF CrawlInv, Once
      <4>4. QED
        BY <1>5, <4>2, <4>3
    <3>2. QED
      BY <1>3, <1>7, <3>1
  <2>6. QED
    BY <2>1, <2>2, <2>3, <2>4, <2>5 DEF Once
<1>11. Named'
  BY <1>5 DEF CrawlInv, Named, Turned
<1>12. Kept'
  <2>1. Root \in queued' /\ listed' \subseteq queued'
    BY DEF CrawlInv, Kept, Turned
  <2>2. \A i \in DOMAIN pages' : pages'[i].followed \subseteq queued'
    BY <1>5 DEF CrawlInv, Kept, Turned
  <2>3. ASSUME NEW s \in queued, NEW i \in DOMAIN queue, queue[i].at = s
        PROVE  \/ \E j \in DOMAIN queue' : queue'[j].at = s
               \/ \E j \in DOMAIN pages' : pages'[j].asked = s
    <3>1. CASE i = 1
      BY <1>2, <1>5, <2>3, <3>1
    <3>2. CASE i # 1
      <4>1. i - 1 \in 1..(n - 1) /\ i - 1 \in DOMAIN queue' /\ (i - 1) + 1 = i
        BY <1>2, <1>3, <1>4, <3>2
      <4>2. QED
        BY <1>4, <2>3, <4>1
    <3>3. QED
      BY <3>1, <3>2
  <2>4. ASSUME NEW s \in queued, NEW i \in DOMAIN pages, pages[i].asked = s
        PROVE  \E j \in DOMAIN pages' : pages'[j].asked = s
    BY <1>5, <2>4
  <2>5. ASSUME NEW s \in p.followed \ queued
        PROVE  \E j \in DOMAIN queue' : queue'[j].at = s
    <3>1. PICK i \in 1..m : order[i] = s
      BY <1>3
    <3>2. n - 1 + i \in DOMAIN queue'
      BY <1>2, <1>3, <1>4
    <3>3. QED
      <4>1. queue'[n - 1 + i] = [at |-> order[i], depth |-> p.depth + 1]
        BY <1>4
      <4>2. QED
        BY <3>1, <3>2, <4>1
  <2>6. QED
    BY <2>1, <2>2, <2>3, <2>4, <2>5 DEF CrawlInv, Kept, Turned
<1>13. Levels'
  <2>1. \A i \in 1..n : p.depth <= queue[i].depth /\ queue[i].depth <= p.depth + 1
    BY <1>2, <1>6 DEF CrawlInv, Levels
  <2>2. \A i, j \in DOMAIN queue' :
          i < j => queue'[i].depth <= queue'[j].depth /\ queue'[j].depth <= queue'[i].depth + 1
    <3> SUFFICES ASSUME NEW i \in DOMAIN queue', NEW j \in DOMAIN queue', i < j
                 PROVE  queue'[i].depth <= queue'[j].depth /\ queue'[j].depth <= queue'[i].depth + 1
      OBVIOUS
    <3>1. i \in Nat /\ j \in Nat
      BY <1>2, <1>3, <1>4
    <3>2. CASE j \in 1..(n - 1)
      <4>1. i \in 1..(n - 1) /\ i + 1 < j + 1 /\ i + 1 \in 1..n /\ j + 1 \in 1..n
        BY <1>2, <3>1, <3>2, <1>4
      <4>2. queue'[i] = queue[i + 1] /\ queue'[j] = queue[j + 1]
        BY <1>4, <3>2, <4>1
      <4>3. QED
        BY <1>2, <4>1, <4>2 DEF CrawlInv, Levels
    <3>3. CASE j \notin 1..(n - 1)
      <4>1. queue'[j].depth = p.depth + 1
        BY <1>7, <3>3
      <4>2. queue'[i].depth = p.depth + 1 \/ \E g \in 1..n : queue'[i] = queue[g]
        BY <1>2, <1>7
      <4>3. QED
        BY <1>1, <1>6, <2>1, <4>1, <4>2
    <3>4. QED
      BY <3>2, <3>3
  <2>3. \A i \in DOMAIN pages', j \in DOMAIN queue' : pages'[i].depth <= queue'[j].depth
    <3> SUFFICES ASSUME NEW i \in DOMAIN pages', NEW j \in DOMAIN queue'
                 PROVE  pages'[i].depth <= queue'[j].depth
      OBVIOUS
    <3>1. pages'[i].depth \in Nat /\ pages'[i].depth <= p.depth
      BY <1>8
    <3>2. queue'[j].depth \in Nat /\ p.depth <= queue'[j].depth
      BY <1>1, <1>2, <1>6, <1>7, <2>1
    <3>3. p.depth \in Nat
      BY <1>1
    <3>4. QED
      BY <3>1, <3>2, <3>3
  <2>4. QED
    BY <2>2, <2>3 DEF Levels
<1>14. Distances'
  <2>1. \A i \in 1..n : queue[i].depth <= p.depth + 1
    BY <1>2, <1>6 DEF CrawlInv, Levels
  <2>2. \A i \in 1..n : queue[i].depth > 0 =>
          \E j \in 1..k : queue[i].at \in pages[j].followed /\ queue[i].depth = pages[j].depth + 1
    BY <1>2, <1>5 DEF CrawlInv, Distances
  <2>3. \A i \in 1..n, j \in 1..k :
          queue[i].at \in pages[j].followed => queue[i].depth <= pages[j].depth + 1
    BY <1>2, <1>5 DEF CrawlInv, Distances
  <2>4. \A i \in DOMAIN queue' :
          queue'[i].depth > 0 => \E j \in DOMAIN pages' : /\ queue'[i].at \in pages'[j].followed
                                                         /\ queue'[i].depth = pages'[j].depth + 1
    <3> SUFFICES ASSUME NEW i \in DOMAIN queue', queue'[i].depth > 0
                 PROVE  \E j \in 1..(k + 1) : /\ queue'[i].at \in pages'[j].followed
                                              /\ queue'[i].depth = pages'[j].depth + 1
      BY <1>5
    <3>1. CASE \E g \in 1..n : queue'[i] = queue[g]
      <4>1. PICK j \in 1..k : queue'[i].at \in pages[j].followed /\ queue'[i].depth = pages[j].depth + 1
        BY <2>2, <3>1
      <4>2. j \in 1..(k + 1)
        BY <1>5
      <4>3. QED
        BY <1>5, <4>1, <4>2
    <3>2. CASE i - (n - 1) \in 1..m /\ queue'[i] = [at |-> order[i - (n - 1)], depth |-> p.depth + 1]
      <4>1. queue'[i].at \in p.followed /\ queue'[i].depth = p.depth + 1 /\ k + 1 \in 1..(k + 1)
        BY <1>3, <1>5, <3>2
      <4>2. QED
        BY <1>5, <4>1
    <3>3. QED
      BY <1>2, <1>7, <3>1, <3>2
  <2>5. \A i \in DOMAIN queue', j \in DOMAIN pages' :
          queue'[i].at \in pages'[j].followed => queue'[i].depth <= pages'[j].depth + 1
    <3> SUFFICES ASSUME NEW i \in DOMAIN queue', NEW j \in 1..(k + 1),
                        queue'[i].at \in pages'[j].followed
                 PROVE  queue'[i].depth <= pages'[j].depth + 1
      BY <1>5
    <3>1. CASE j = k + 1
      <4>1. pages'[j] = p
        BY <1>5, <3>1
      <4>2. queue'[i].depth = p.depth + 1 \/ \E g \in 1..n : queue'[i] = queue[g]
        BY <1>2, <1>7
      <4>3. QED
        BY <1>1, <2>1, <4>1, <4>2
    <3>2. CASE j # k + 1
      <4>1. j \in 1..k /\ pages'[j] = pages[j]
        BY <1>5, <3>2
      <4>2. queue'[i].at \in queued
        BY <1>5, <4>1 DEF CrawlInv, Kept
      <4>3. \E g \in 1..n : queue'[i] = queue[g]
        BY <1>2, <1>3, <1>7, <4>2
      <4>4. QED
        BY <2>3, <4>1, <4>3
    <3>3. QED
      BY <3>1, <3>2
  <2>6. ASSUME NEW i \in 1..(k + 1), pages'[i].depth > 0
        PROVE  \E j \in 1..(i - 1) : /\ pages'[i].asked \in pages'[j].followed
                                     /\ pages'[i].depth = pages'[j].depth + 1
    <3>1. CASE i = k + 1
      <4>1. pages'[i] = p /\ i - 1 = k /\ 1 \in 1..n
        BY <1>2, <1>5, <3>1
      <4>2. PICK j \in 1..k : p.asked \in pages[j].followed /\ p.depth = pages[j].depth + 1
        BY <1>2, <2>2, <2>6, <4>1
      <4>3. QED
        BY <1>5, <4>1, <4>2
    <3>2. CASE i # k + 1
      <4>1. i \in 1..k /\ pages'[i] = pages[i]
        BY <1>5, <3>2
      <4>2. PICK j \in 1..(i - 1) : pages[i].asked \in pages[j].followed /\ pages[i].depth = pages[j].depth + 1
        BY <1>5, <2>6, <4>1 DEF CrawlInv, Distances, ShortestDepth
      <4>3. j \in 1..k
        BY <1>5, <4>1
      <4>4. QED
        BY <1>5, <4>1, <4>2, <4>3
    <3>3. QED
      BY <3>1, <3>2
  <2>7. ASSUME NEW i \in 1..(k + 1), NEW j \in 1..(k + 1), pages'[i].asked \in pages'[j].followed
        PROVE  pages'[i].depth <= pages'[j].depth + 1
    <3>1. pages'[i].depth \in Nat /\ pages'[i].depth <= p.depth
      BY <1>5, <1>8
    <3>2. CASE j = k + 1
      BY <1>1, <1>5, <3>1, <3>2
    <3>3. CASE j # k + 1
      <4>1. j \in 1..k /\ pages'[j] = pages[j]
        BY <1>5, <3>3
      <4>2. CASE i = k + 1
        BY <1>2, <1>5, <2>3, <2>7, <4>1, <4>2
      <4>3. CASE i # k + 1
        BY <1>5, <2>7, <4>1, <4>3 DEF CrawlInv, Distances, ShortestDepth
      <4>4. QED
        BY <4>2, <4>3
    <3>4. QED
      BY <3>2, <3>3
  <2>8. ShortestDepth'
    BY <1>5, <2>6, <2>7 DEF ShortestDepth
  <2>9. QED
    BY <2>4, <2>5, <2>8 DEF Distances
<1>15. QED
  BY <1>9, <1>10, <1>11, <1>12, <1>13, <1>14

-------------------------------------------------------------------------------
(* A sitemap: new locations join the queue, before there are pages.          *)
Seeded(locations, order) ==
  /\ locations \in SUBSET Spelling /\ Lists(order, locations \ queued)
  /\ queue' = queue \o Entries(order, 0)
  /\ queued' = queued \cup locations /\ listed' = listed \cup locations
  /\ pages' = pages /\ pages = <<>>
  /\ \A i \in DOMAIN queue : queue[i].depth = 0

LEMMA SeedsKeep ==
  ASSUME CrawlInv, NEW locations, NEW order, Seeded(locations, order)
  PROVE  /\ Shape' /\ Once' /\ Named' /\ Kept' /\ Levels' /\ Distances'
         /\ \A i \in DOMAIN queue' : queue'[i].depth = 0
<1> DEFINE n == Len(queue)
           m == Len(order)
<1>1. queue \in Seq(Entry) /\ n \in Nat /\ DOMAIN queue = 1..n
  BY DEF CrawlInv, Shape
<1>2. /\ order \in Seq(Spelling) /\ m \in Nat /\ DOMAIN order = 1..m
      /\ \A i \in 1..m : order[i] \in locations \ queued
      /\ \A i, j \in 1..m : order[i] = order[j] => i = j
      /\ \A s \in locations \ queued : \E i \in 1..m : order[i] = s
  BY DEF Seeded, Lists
<1>3. /\ queue' \in Seq(Entry) /\ DOMAIN queue' = 1..(n + m)
      /\ \A i \in 1..n : queue'[i] = queue[i]
      /\ \A i \in 1..m : queue'[n + i] = [at |-> order[i], depth |-> 0]
  <2>1. PICK d \in Nat : d = 0
    OBVIOUS
  <2>2. queue' = queue \o Entries(order, d)
    BY <2>1 DEF Seeded
  <2>3. /\ queue \o Entries(order, d) \in Seq(Entry)
        /\ DOMAIN (queue \o Entries(order, d)) = 1..(Len(queue) + Len(order))
        /\ \A i \in 1..Len(queue) : (queue \o Entries(order, d))[i] = queue[i]
        /\ \A i \in 1..Len(order) :
             (queue \o Entries(order, d))[Len(queue) + i] = [at |-> order[i], depth |-> d]
    BY <1>1, <1>2, Joined
  <2>4. QED
    BY <2>1, <2>2, <2>3
<1>4. DOMAIN pages' = {} /\ DOMAIN pages = {} /\ pages' \in Seq(Page)
  BY DEF CrawlInv, Shape, Seeded
<1> HIDE DEF n, m
(* Where the members of the new queue come from. *)
<1>5. \A i \in DOMAIN queue' :
        \/ i \in 1..n /\ queue'[i] = queue[i]
        \/ i - n \in 1..m /\ queue'[i] = [at |-> order[i - n], depth |-> 0]
  <2> SUFFICES ASSUME NEW i \in DOMAIN queue', ~(i \in 1..n)
               PROVE  i - n \in 1..m /\ queue'[i] = [at |-> order[i - n], depth |-> 0]
    BY <1>3
  <2>1. i - n \in 1..m /\ n + (i - n) = i
    BY <1>1, <1>2, <1>3
  <2>2. QED
    BY <1>3, <2>1
<1>6. \A i \in DOMAIN queue' : queue'[i].depth = 0 /\ queue'[i].depth \in Nat
  <2>1. \A g \in 1..n : queue[g].depth = 0
    BY <1>1 DEF Seeded
  <2>2. QED
    BY <1>5, <2>1
<1>7. Shape'
  BY <1>3, <1>4 DEF CrawlInv, Shape, Seeded
<1>8. Once'
  <2>1. \A i \in DOMAIN queue' : queue'[i].at \in queued'
    <3>1. \A g \in 1..n : queue[g].at \in queued
      BY <1>1 DEF CrawlInv, Once
    <3>2. \A g \in 1..m : order[g] \in queued'
      BY <1>2 DEF Seeded
    <3>3. queued \subseteq queued'
      BY DEF Seeded
    <3>4. QED
      BY <1>5, <3>1, <3>2, <3>3
  <2>2. \A i, j \in DOMAIN queue' : queue'[i].at = queue'[j].at => i = j
    <3> SUFFICES ASSUME NEW i \in DOMAIN queue', NEW j \in DOMAIN queue', queue'[i].at = queue'[j].at
                 PROVE  i = j
      OBVIOUS
    <3>1. i \in Nat /\ j \in Nat
      BY <1>1, <1>2, <1>3
    <3>2. QED
      BY <1>1, <1>2, <1>5, <3>1 DEF CrawlInv, Once
  <2>3. QED
    BY <1>4, <2>1, <2>2 DEF Once
<1>9. Named'
  BY <1>4 DEF Named
<1>10. Kept'
  <2>1. Root \in queued' /\ listed' \subseteq queued'
    BY DEF CrawlInv, Kept, Seeded
  <2>2. \A s \in queued : \E i \in DOMAIN queue' : queue'[i].at = s
    <3>1. \A i \in 1..n : i \in DOMAIN queue'
      BY <1>1, <1>2, <1>3
    <3>2. \A s \in queued : \E i \in 1..n : queue[i].at = s
      BY <1>1, <1>4 DEF CrawlInv, Kept
    <3>3. QED
      BY <1>3, <3>1, <3>2
  <2>3. ASSUME NEW s \in locations \ queued
        PROVE  \E j \in DOMAIN queue' : queue'[j].at = s
    <3>1. PICK i \in 1..m : order[i] = s
      BY <1>2
    <3>2. n + i \in DOMAIN queue'
      BY <1>1, <1>2, <1>3
    <3>3. queue'[n + i] = [at |-> order[i], depth |-> 0]
      BY <1>3
    <3>4. QED
      BY <3>1, <3>2, <3>3
  <2>4. QED
    BY <1>4, <2>1, <2>2, <2>3 DEF Kept, Seeded
<1>11. Levels'
  BY <1>4, <1>6 DEF Levels
<1>12. Distances'
  BY <1>4, <1>6 DEF Distances, ShortestDepth
<1>13. QED
  BY <1>6, <1>7, <1>8, <1>9, <1>10, <1>11, <1>12

-------------------------------------------------------------------------------
LEMMA CrawlStarts == Init => CrawlInv
<1> SUFFICES ASSUME Init PROVE CrawlInv
  OBVIOUS
<1>1. /\ DOMAIN queue = 1..1 /\ queue[1] = [at |-> Root, depth |-> 0]
      /\ DOMAIN pages = {} /\ pages = <<>>
  BY DEF Init
<1>2. 1..1 = {1}
  OBVIOUS
<1>3. Root \in Spelling
  BY SiteAuditAssumption DEF Spelling
<1>4. Shape
  <2>1. [at |-> Root, depth |-> 0] \in Entry
    BY <1>3 DEF Entry
  <2>2. QED
    BY <1>3, <2>1 DEF Shape, Init
<1>5. Once /\ Named /\ Kept
  BY <1>1, <1>2 DEF Once, Named, Kept, Init
<1>6. Levels /\ Distances
  BY <1>1, <1>2 DEF Levels, Distances, ShortestDepth
<1>7. Stages
  BY <1>1, <1>2 DEF Stages, Untruncated, Init
<1>8. QED
  BY <1>4, <1>5, <1>6, <1>7 DEF CrawlInv

(* A turn of the loop ends the crawl only with an empty queue, or marked. *)
LEMMA TurnEnds ==
  ASSUME CrawlInv, phase = "crawl", NEW q, NEW ps, NEW found, Turn(q, ps, found)
  PROVE  Stages'
<1>1. CASE q # <<>> /\ Len(ps) < MaxPages
  BY <1>1 DEF Turn, Stages, Untruncated
<1>2. CASE ~(q # <<>> /\ Len(ps) < MaxPages)
  <2>1. phase' = "done" /\ queue' = q
    BY <1>2 DEF Turn
  <2>2. q # <<>> => truncated' = TRUE
    BY <1>2 DEF Turn
  <2>3. QED
    BY <2>1, <2>2 DEF Stages, Untruncated
<1>3. QED
  BY <1>1, <1>2

(* Before the first page, the root is in the queue. *)
LEMMA QueueWaits ==
  ASSUME Shape, Kept, pages = <<>>
  PROVE  queue # <<>>
<1>1. DOMAIN pages = {}
  OBVIOUS
<1>2. \E i \in DOMAIN queue : queue[i].at = Root
  BY <1>1 DEF Kept
<1>3. QED
  BY <1>2

LEMMA SitemapKeeps ==
  ASSUME CrawlInv, SitemapRead
  PROVE  CrawlInv'
<1>1. PICK locations \in SUBSET Spelling :
        /\ listed' = listed \cup locations /\ queued' = queued \cup locations
        /\ \E order \in SetToSeqs(locations \ queued) : queue' = queue \o Entries(order, 0)
  BY DEF SitemapRead
<1>2. PICK order \in SetToSeqs(locations \ queued) : queue' = queue \o Entries(order, 0)
  BY <1>1
<1>3. pages' = pages /\ pages = <<>> /\ \A i \in DOMAIN queue : queue[i].depth = 0
  BY DEF SitemapRead, CrawlInv, Stages
<1>4. Seeded(locations, order)
  BY <1>1, <1>2, <1>3, OrdersList DEF Seeded
<1>5. /\ Shape' /\ Once' /\ Named' /\ Kept' /\ Levels' /\ Distances'
      /\ \A i \in DOMAIN queue' : queue'[i].depth = 0
  BY <1>4, SeedsKeep
<1>6. queue' # <<>>
  <2>1. DOMAIN pages' = {} /\ \E i \in DOMAIN queue' : queue'[i].at = Root
    BY <1>3, <1>5 DEF Kept
  <2>2. QED
    BY <2>1
<1>7. Stages'
  <2>1. phase' \in {"sitemaps", "crawl"}
    BY DEF SitemapRead, NextSitemap
  <2>2. QED
    BY <1>3, <1>5, <1>6, <2>1 DEF Stages, Untruncated
<1>8. QED
  BY <1>5, <1>7 DEF CrawlInv

LEMMA VisitTurns ==
  ASSUME CrawlInv, Visit
  PROVE  Stages' /\ \E p, order : Turned(p, order)
<1> DEFINE e == Head(queue)
<1>1. phase = "crawl" /\ queue # <<>> /\ queue \in Seq(Entry) /\ e \in Entry /\ pages \in Seq(Page)
  BY DEF CrawlInv, Stages, Shape, Visit, Visiting
<1>2. e.at \in Spelling /\ e.depth \in Nat /\ Normal(e.at) \in Spelling
  BY <1>1, SiteAuditAssumption DEF Entry, Normal, Spelling
<1> HIDE DEF e
<1>3. PICK d \in Parsed : \E followed \in IF e.depth < MaxDepth THEN FirstLinks(d.links) ELSE {{}} :
        /\ queued' = queued \cup followed
        /\ \E order \in SetToSeqs(followed \ queued) :
             Turn(Tail(queue) \o Entries(order, e.depth + 1),
                  Append(pages, [asked |-> e.at, url |-> Normal(e.at), title |-> d.title, links |-> d.links,
                                 followed |-> followed, count |-> d.faults, depth |-> e.depth]),
                  issues \o PageIssues(Normal(e.at), d.faults))
  BY DEF Visit, e, Remembered, Enqueued
<1>4. PICK followed \in IF e.depth < MaxDepth THEN FirstLinks(d.links) ELSE {{}} :
        /\ queued' = queued \cup followed
        /\ \E order \in SetToSeqs(followed \ queued) :
             Turn(Tail(queue) \o Entries(order, e.depth + 1),
                  Append(pages, [asked |-> e.at, url |-> Normal(e.at), title |-> d.title, links |-> d.links,
                                 followed |-> followed, count |-> d.faults, depth |-> e.depth]),
                  issues \o PageIssues(Normal(e.at), d.faults))
  BY <1>3
<1> DEFINE p == [asked |-> e.at, url |-> Normal(e.at), title |-> d.title, links |-> d.links,
                 followed |-> followed, count |-> d.faults, depth |-> e.depth]
<1>5. PICK order \in SetToSeqs(followed \ queued) :
        Turn(Tail(queue) \o Entries(order, e.depth + 1), Append(pages, p),
             issues \o PageIssues(Normal(e.at), d.faults))
  BY <1>4
<1>6. d.title \in Title \cup {None} /\ d.links \in SUBSET Url /\ d.faults \in Nat
  BY SiteAuditAssumption DEF Parsed
<1>7. followed \in SUBSET Url
  <2>1. followed = {} \/ followed \in FirstLinks(d.links)
    OBVIOUS
  <2>2. followed \in FirstLinks(d.links) => followed \subseteq d.links
    BY DEF FirstLinks, kSubset
  <2>3. QED
    BY <1>6, <2>1, <2>2
<1>8. p \in Page /\ p.asked = e.at /\ p.depth = e.depth /\ p.url = Normal(e.at) /\ p.followed = followed
  BY <1>2, <1>6, <1>7 DEF Page
<1> HIDE DEF p
<1>9. Stages'
  BY <1>1, <1>5, TurnEnds
<1>10. queue' = Tail(queue) \o Entries(order, p.depth + 1) /\ pages' = Append(pages, p)
  BY <1>5, <1>8 DEF Turn
<1>11. Lists(order, p.followed \ queued)
  <2>1. followed \ queued \in SUBSET Spelling
    BY <1>7 DEF Spelling
  <2>2. QED
    BY <1>8, <2>1, OrdersList
<1>12. queued' = queued \cup p.followed /\ listed' = listed
  BY <1>4, <1>8 DEF Visit
<1>13. Turned(p, order)
  BY <1>1, <1>8, <1>10, <1>11, <1>12 DEF Turned, e
<1>14. QED
  BY <1>9, <1>13

LEMMA UnreachableTurns ==
  ASSUME CrawlInv, Unreachable
  PROVE  Stages' /\ \E p, order : Turned(p, order)
<1> DEFINE e == Head(queue)
           p == [asked |-> e.at, url |-> e.at, title |-> None, links |-> {},
                 followed |-> {}, count |-> 1, depth |-> e.depth]
<1>1. phase = "crawl" /\ queue # <<>> /\ queue \in Seq(Entry) /\ e \in Entry
  BY DEF CrawlInv, Stages, Shape, Unreachable, Visiting
<1>2. e.at \in Spelling /\ e.depth \in Nat
  BY <1>1 DEF Entry
<1>3. Turn(Tail(queue), Append(pages, p), Append(issues, [code |-> "fetch_failed", at |-> e.at]))
  BY DEF Unreachable
<1> HIDE DEF e
<1>4. p \in Page /\ p.asked = e.at /\ p.url = e.at /\ p.depth = e.depth /\ p.followed = {}
  BY <1>2 DEF Page
<1> HIDE DEF p
<1>5. Stages'
  BY <1>1, <1>3, TurnEnds
<1>6. Lists(<<>>, p.followed \ queued)
  BY <1>4 DEF Lists
<1>7. queue' = Tail(queue) \o Entries(<<>>, p.depth + 1)
  <2>1. queue' = Tail(queue) /\ Tail(queue) \in Seq(Entry)
    BY <1>1, <1>3, Shifted DEF Turn
  <2>2. Entries(<<>>, p.depth + 1) = <<>>
    BY DEF Entries
  <2>3. QED
    BY <2>1, <2>2
<1>8. pages' = Append(pages, p) /\ queued' = queued \cup p.followed /\ listed' = listed
  BY <1>3, <1>4 DEF Turn, Unreachable
<1>9. Turned(p, <<>>)
  BY <1>1, <1>4, <1>6, <1>7, <1>8 DEF Turned, e
<1>10. QED
  BY <1>5, <1>9

LEMMA TurnsKeep ==
  ASSUME CrawlInv, Stages', \E p, order : Turned(p, order)
  PROVE  CrawlInv'
<1>1. PICK p, order : Turned(p, order)
  OBVIOUS
<1>2. Shape' /\ Once' /\ Named' /\ Kept' /\ Levels' /\ Distances'
  BY <1>1, TurnKeeps
<1>3. QED
  BY <1>2 DEF CrawlInv

(* A step that leaves the queue and the report alone. *)
LEMMA IdleKeeps ==
  ASSUME CrawlInv, UNCHANGED <<listed, queue, queued, pages>>, Stages'
  PROVE  CrawlInv'
<1>1. Shape' /\ Once' /\ Named' /\ Kept'
  BY DEF CrawlInv, Shape, Once, Named, Kept
<1>2. Levels' /\ Distances'
  BY DEF CrawlInv, Levels, Distances, ShortestDepth
<1>3. QED
  BY <1>1, <1>2 DEF CrawlInv

LEMMA CrawlGoesOn == CrawlInv /\ [Next]_vars => CrawlInv'
<1> SUFFICES ASSUME CrawlInv, [Next]_vars PROVE CrawlInv'
  OBVIOUS
<1>1. CASE DiscoverSitemaps
  <2>1. UNCHANGED <<listed, queue, queued, pages>> /\ phase = "robots" /\ phase' = "sitemaps"
    BY <1>1 DEF DiscoverSitemaps
  <2>2. Stages'
    BY <2>1 DEF CrawlInv, Stages, Untruncated
  <2>3. QED
    BY <2>1, <2>2, IdleKeeps
<1>2. CASE SitemapInvalid
  <2>1. UNCHANGED <<listed, queue, queued, pages>> /\ phase = "sitemaps" /\ phase' \in {"sitemaps", "crawl"}
    BY <1>2 DEF SitemapInvalid, NextSitemap
  <2>2. queue # <<>>
    BY <2>1, QueueWaits DEF CrawlInv, Stages
  <2>3. Stages'
    BY <2>1, <2>2 DEF CrawlInv, Stages, Untruncated
  <2>4. QED
    BY <2>1, <2>3, IdleKeeps
<1>3. CASE SitemapRead
  BY <1>3, SitemapKeeps
<1>4. CASE SitemapRaises \/ VisitRaises
  <2>1. UNCHANGED <<listed, queue, queued, pages>> /\ phase' = "raised"
    BY <1>4 DEF SitemapRaises, VisitRaises, Raise
  <2>2. Stages'
    BY <2>1 DEF Stages, Untruncated
  <2>3. QED
    BY <2>1, <2>2, IdleKeeps
<1>5. CASE Unreachable
  BY <1>5, UnreachableTurns, TurnsKeep
<1>6. CASE Visit
  BY <1>6, VisitTurns, TurnsKeep
<1>7. CASE UNCHANGED vars
  <2>1. UNCHANGED <<listed, queue, queued, pages>> /\ UNCHANGED <<phase, truncated>>
    BY <1>7 DEF vars
  <2>2. Stages'
    BY <2>1 DEF CrawlInv, Stages, Untruncated
  <2>3. QED
    BY <2>1, <2>2, IdleKeeps
<1>8. QED
  BY <1>1, <1>2, <1>3, <1>4, <1>5, <1>6, <1>7 DEF Next

LEMMA CrawlAlways == Spec => []CrawlInv
<1>1. QED
  BY CrawlStarts, CrawlGoesOn, PTL DEF Spec

-------------------------------------------------------------------------------
(* Nothing is fetched twice but what a sitemap spells in another way: audit  *)
(* adds a link to `queued` when it adds it to the queue.                     *)
THEOREM NoPageTwice == Spec => []FetchedOnce
<1>1. CrawlInv => FetchedOnce
  <2> SUFFICES ASSUME CrawlInv, NEW i \in DOMAIN pages, NEW j \in DOMAIN pages, i # j,
                      pages[i].url = pages[j].url, pages[i].asked \notin Variant, pages[j].asked \notin Variant
               PROVE  FALSE
    BY DEF FetchedOnce
  <2>1. pages[i].url = pages[i].asked /\ pages[j].url = pages[j].asked
    BY DEF CrawlInv, Named, Normal
  <2>2. QED
    BY <2>1 DEF CrawlInv, Once
<1>2. QED
  BY CrawlAlways, <1>1, PTL

(* The depth in the report is the distance over the links followed: the      *)
(* queue is first in, first out, and holds two levels at most.               *)
THEOREM DepthsAreDistances == Spec => []ShortestDepth
<1>1. CrawlInv => ShortestDepth
  BY DEF CrawlInv, Distances
<1>2. QED
  BY CrawlAlways, <1>1, PTL

(* An unmarked report has a page for all that was queued: the loop ends      *)
(* without `truncated` only when the queue is empty.                         *)
THEOREM UnmarkedIsComplete == Spec => []CompleteWithinLimits
<1>1. CrawlInv => CompleteWithinLimits
  <2> SUFFICES ASSUME CrawlInv, Untruncated
               PROVE  /\ \A s \in {Root} \cup listed : \E p \in ToSet(pages) : p.asked = s
                      /\ \A p \in ToSet(pages) : \A l \in p.followed : \E q \in ToSet(pages) : q.asked = l
    BY DEF CompleteWithinLimits
  <2>1. DOMAIN queue = {}
    BY DEF CrawlInv, Stages
  <2>2. ASSUME NEW s \in queued
        PROVE  \E p \in ToSet(pages) : p.asked = s
    <3>1. PICK i \in DOMAIN pages : pages[i].asked = s
      BY <2>1 DEF CrawlInv, Kept
    <3>2. pages[i] \in ToSet(pages)
      BY DEF ToSet
    <3>3. QED
      BY <3>1, <3>2
  <2>3. {Root} \cup listed \subseteq queued
    BY DEF CrawlInv, Kept
  <2>4. \A p \in ToSet(pages) : p.followed \subseteq queued
    BY DEF CrawlInv, Kept, ToSet
  <2>5. QED
    BY <2>2, <2>3, <2>4
<1>2. QED
  BY CrawlAlways, <1>1, PTL

-------------------------------------------------------------------------------
(* What the issues say of the pages. *)

Told(p, found) ==
  p.count > 0 => \E k \in DOMAIN found : found[k].code \in {"page", "fetch_failed"} /\ found[k].at = p.url

FindingsInv ==
  /\ issues \in Seq(Issue) /\ sitemaps \in Seq(Sitemap)
  /\ phase = "sitemaps" => sitemaps # <<>>
  /\ phase \in {"robots", "sitemaps", "crawl"} => \A i \in DOMAIN pages : Told(pages[i], issues)
  /\ NothingDropped

LEMMA SetsListed ==
  ASSUME NEW S, IsFiniteSet(S)
  PROVE  SetToSeq(S) \in Seq(S) /\ \A s \in S : \E k \in DOMAIN SetToSeq(S) : SetToSeq(S)[k] = s
<1> DEFINE n == Cardinality(S)
           order == SetToSeq(S)
<1>1. n \in Nat /\ ExistsBijection(1..n, S)
  BY FS_CardinalityType
<1>2. \E f \in [1..n -> S] : IsInjective(f)
  BY <1>1 DEF ExistsBijection, Bijection, Injection
<1>3. order \in [1..n -> S] /\ IsInjective(order)
  BY <1>2 DEF SetToSeq
<1> HIDE DEF order
<1>4. IsFiniteSet(1..n) /\ Cardinality(1..n) = n
  BY <1>1, FS_Interval
<1>5. order \in Injection(1..n, S)
  BY <1>3 DEF Injection
<1>6. order \in Surjection(1..n, S)
  BY <1>4, <1>5, FS_Injection
<1>7. order \in Seq(S) /\ DOMAIN order = 1..n
  BY <1>1, <1>3
<1>8. \A s \in S : \E k \in DOMAIN order : order[k] = s
  BY <1>6, <1>7 DEF Surjection
<1>9. QED
  BY <1>7, <1>8 DEF order

Duplicate(p) == [code |-> "duplicate_title", at |-> p.asked]

LEMMA DuplicatesListed ==
  ASSUME NEW ps \in Seq(Page)
  PROVE  /\ DuplicateTitles(ps) \in Seq(Issue)
         /\ \A p, q \in ToSet(ps) :
              p.asked # q.asked /\ p.title # None /\ p.title = q.title =>
                \E k \in DOMAIN DuplicateTitles(ps) : DuplicateTitles(ps)[k] = Duplicate(p)
<1> DEFINE Shared(p) == p.title # None /\ \E q \in ToSet(ps) : q.asked # p.asked /\ q.title = p.title
           Pairs == {p \in ToSet(ps) : Shared(p)}
           S == {[code |-> "duplicate_title", at |-> p.asked] : p \in Pairs}
           D == {p.asked : p \in Pairs}
           f == [s \in D |-> [code |-> "duplicate_title", at |-> s]]
<1>1. DuplicateTitles(ps) = SetToSeq(S)
  BY DEF DuplicateTitles
<1>2. ToSet(ps) \subseteq Page
  BY DEF ToSet
<1>3. \A p \in Pairs : p.asked \in Spelling
  BY <1>2 DEF Page
<1>4. S \subseteq Issue
  BY <1>3 DEF Issue
<1>5. IsFiniteSet(S)
  <2>1. IsFiniteSet(Url) /\ IsFiniteSet(Variant)
    BY SiteAuditAssumption
  <2>2. IsFiniteSet(Spelling)
    BY <2>1, FS_Union DEF Spelling
  <2>3. IsFiniteSet(D)
    BY <1>3, <2>2, FS_Subset
  <2>4. f \in Surjection(D, S)
    <3>1. f \in [D -> S]
      OBVIOUS
    <3>2. \A s \in S : \E d \in D : f[d] = s
      OBVIOUS
    <3>3. QED
      BY <3>1, <3>2 DEF Surjection
  <2>5. QED
    BY <2>3, <2>4, FS_Surjection
<1>6. SetToSeq(S) \in Seq(S) /\ \A s \in S : \E k \in DOMAIN SetToSeq(S) : SetToSeq(S)[k] = s
  BY <1>5, SetsListed
<1>7. ASSUME NEW p \in ToSet(ps), NEW q \in ToSet(ps),
             p.asked # q.asked, p.title # None, p.title = q.title
      PROVE  Duplicate(p) \in S
  <2>1. p \in Pairs
    BY <1>7
  <2>2. QED
    BY <2>1 DEF Duplicate
<1> HIDE DEF S
<1>8. SetToSeq(S) \in Seq(Issue)
  BY <1>4, <1>6
<1>9. QED
  BY <1>1, <1>6, <1>7, <1>8

(* A turn of the loop goes on, or ends with the duplicate titles, all of     *)
(* them unless the flag is set.                                              *)
LEMMA TurnTells ==
  ASSUME NEW q, NEW ps \in Seq(Page), NEW found \in Seq(Issue), phase = "crawl",
         \A i \in DOMAIN ps : Told(ps[i], found), Turn(q, ps, found), sitemaps' = sitemaps,
         sitemaps \in Seq(Sitemap)
  PROVE  FindingsInv'
<1>1. pages' = ps
  BY DEF Turn
<1>2. CASE q # <<>> /\ Len(ps) < MaxPages
  <2>1. issues' = found /\ phase' = "crawl"
    BY <1>2 DEF Turn
  <2>2. QED
    BY <1>1, <2>1 DEF FindingsInv, NothingDropped, Untruncated
<1>3. CASE ~(q # <<>> /\ Len(ps) < MaxPages)
  <2> DEFINE found2 == DuplicateTitles(ps)
             all == found \o found2
  <2>1. phase' = "done" /\ issues' = Bounded(all) /\ truncated' = (q # <<>> \/ Len(all) > MaxIssues)
    BY <1>3 DEF Turn
  <2>2. found2 \in Seq(Issue)
    BY DuplicatesListed
  <2>3. \A p1, p2 \in ToSet(ps) :
          p1.asked # p2.asked /\ p1.title # None /\ p1.title = p2.title =>
            \E k \in DOMAIN found2 : found2[k] = Duplicate(p1)
    BY DuplicatesListed
  <2> HIDE DEF found2
  <2>4. /\ all \in Seq(Issue) /\ DOMAIN all = 1..(Len(found) + Len(found2))
        /\ \A i \in 1..Len(found) : all[i] = found[i]
        /\ \A i \in 1..Len(found2) : all[Len(found) + i] = found2[i]
    BY <2>2
  <2> HIDE DEF all
  <2>5. issues' \in Seq(Issue)
    BY <2>1, <2>4, SiteAuditAssumption DEF Bounded
  <2>6. ASSUME Untruncated'
        PROVE  issues' = all
    <3>1. ~(Len(all) > MaxIssues)
      BY <2>1, <2>6 DEF Untruncated
    <3>2. QED
      BY <2>1, <3>1 DEF Bounded
  <2>7. ASSUME Untruncated', NEW p \in ToSet(ps), p.count > 0
        PROVE  \E i \in ToSet(all) : i.code \in {"page", "fetch_failed"} /\ i.at = p.url
    <3>1. PICK i \in DOMAIN ps : p = ps[i]
      BY DEF ToSet
    <3>2. PICK k \in DOMAIN found : found[k].code \in {"page", "fetch_failed"} /\ found[k].at = p.url
      BY <2>7, <3>1 DEF Told
    <3>3. k \in 1..Len(found) /\ k \in DOMAIN all /\ all[k] = found[k]
      BY <2>2, <2>4
    <3>4. all[k] \in ToSet(all)
      BY <3>3 DEF ToSet
    <3>5. QED
      BY <3>2, <3>3, <3>4
  <2>8. ASSUME Untruncated', NEW p1 \in ToSet(ps), NEW p2 \in ToSet(ps),
               p1.asked # p2.asked, p1.title # None, p1.title = p2.title
        PROVE  [code |-> "duplicate_title", at |-> p1.asked] \in ToSet(all)
    <3>1. PICK k \in DOMAIN found2 : found2[k] = Duplicate(p1)
      BY <2>3, <2>8
    <3>2. k \in 1..Len(found2) /\ Len(found) + k \in DOMAIN all /\ all[Len(found) + k] = found2[k]
      BY <2>2, <2>4
    <3>3. all[Len(found) + k] \in ToSet(all)
      BY <3>2 DEF ToSet
    <3>4. QED
      BY <3>1, <3>2, <3>3 DEF Duplicate
  <2>9. NothingDropped'
    BY <1>1, <2>6, <2>7, <2>8 DEF NothingDropped
  <2>10. QED
    BY <2>1, <2>5, <2>9 DEF FindingsInv
<1>4. QED
  BY <1>2, <1>3

(* The issues of earlier pages stay, and those of a new page join them. *)
LEMMA MoreTold ==
  ASSUME FindingsInv, CrawlInv, phase = "crawl", NEW p \in Page, NEW new \in Seq(Issue), Told(p, new)
  PROVE  /\ Append(pages, p) \in Seq(Page) /\ issues \o new \in Seq(Issue)
         /\ \A i \in DOMAIN Append(pages, p) : Told(Append(pages, p)[i], issues \o new)
<1>1. issues \in Seq(Issue) /\ pages \in Seq(Page) /\ \A i \in DOMAIN pages : Told(pages[i], issues)
  BY DEF FindingsInv, CrawlInv, Shape
<1> DEFINE all == issues \o new
           ps == Append(pages, p)
<1>2. /\ all \in Seq(Issue) /\ DOMAIN all = 1..(Len(issues) + Len(new))
      /\ \A i \in 1..Len(issues) : all[i] = issues[i]
      /\ \A i \in 1..Len(new) : all[Len(issues) + i] = new[i]
  BY <1>1
<1>3. /\ ps \in Seq(Page) /\ DOMAIN ps = 1..(Len(pages) + 1)
      /\ \A i \in DOMAIN pages : ps[i] = pages[i]
      /\ ps[Len(pages) + 1] = p
  BY <1>1
<1> HIDE DEF all, ps
<1>4. Told(p, all)
  <2> SUFFICES ASSUME p.count > 0
               PROVE  \E k \in DOMAIN all : all[k].code \in {"page", "fetch_failed"} /\ all[k].at = p.url
    BY DEF Told
  <2>1. PICK k \in DOMAIN new : new[k].code \in {"page", "fetch_failed"} /\ new[k].at = p.url
    BY DEF Told
  <2>2. Len(issues) + k \in DOMAIN all /\ all[Len(issues) + k] = new[k]
    BY <1>1, <1>2
  <2>3. QED
    BY <2>1, <2>2
<1>5. ASSUME NEW i \in DOMAIN pages
      PROVE  Told(pages[i], all)
  <2> SUFFICES ASSUME pages[i].count > 0
               PROVE  \E k \in DOMAIN all : all[k].code \in {"page", "fetch_failed"} /\ all[k].at = pages[i].url
    BY DEF Told
  <2>1. PICK k \in DOMAIN issues : issues[k].code \in {"page", "fetch_failed"} /\ issues[k].at = pages[i].url
    BY <1>1 DEF Told
  <2>2. k \in DOMAIN all /\ all[k] = issues[k]
    BY <1>1, <1>2
  <2>3. QED
    BY <2>1, <2>2
<1>6. \A i \in DOMAIN ps : i \in DOMAIN pages \/ i = Len(pages) + 1
  BY <1>1, <1>3
<1>7. QED
  BY <1>2, <1>3, <1>4, <1>5, <1>6 DEF all, ps

LEMMA VisitTells ==
  ASSUME CrawlInv, FindingsInv, Visit
  PROVE  FindingsInv'
<1> DEFINE e == Head(queue)
<1>1. phase = "crawl" /\ queue # <<>> /\ queue \in Seq(Entry) /\ e \in Entry
  BY DEF CrawlInv, Stages, Shape, Visit, Visiting
<1>2. e.at \in Spelling /\ e.depth \in Nat /\ Normal(e.at) \in Spelling
  BY <1>1, SiteAuditAssumption DEF Entry, Normal, Spelling
<1> HIDE DEF e
<1>3. PICK d \in Parsed : \E followed \in IF e.depth < MaxDepth THEN FirstLinks(d.links) ELSE {{}} :
         \E order \in SetToSeqs(followed \ queued) :
             Turn(Tail(queue) \o Entries(order, e.depth + 1),
                  Append(pages, [asked |-> e.at, url |-> Normal(e.at), title |-> d.title, links |-> d.links,
                                 followed |-> followed, count |-> d.faults, depth |-> e.depth]),
                  issues \o PageIssues(Normal(e.at), d.faults))
  BY DEF Visit, e, Enqueued
<1>4. PICK followed \in IF e.depth < MaxDepth THEN FirstLinks(d.links) ELSE {{}} :
         \E order \in SetToSeqs(followed \ queued) :
             Turn(Tail(queue) \o Entries(order, e.depth + 1),
                  Append(pages, [asked |-> e.at, url |-> Normal(e.at), title |-> d.title, links |-> d.links,
                                 followed |-> followed, count |-> d.faults, depth |-> e.depth]),
                  issues \o PageIssues(Normal(e.at), d.faults))
  BY <1>3
<1> DEFINE p == [asked |-> e.at, url |-> Normal(e.at), title |-> d.title, links |-> d.links,
                 followed |-> followed, count |-> d.faults, depth |-> e.depth]
           new == PageIssues(Normal(e.at), d.faults)
<1>5. PICK order \in SetToSeqs(followed \ queued) :
        Turn(Tail(queue) \o Entries(order, e.depth + 1), Append(pages, p), issues \o new)
  BY <1>4
<1>6. d.title \in Title \cup {None} /\ d.links \in SUBSET Url /\ d.faults \in Nat
  BY SiteAuditAssumption DEF Parsed
<1>7. followed \in SUBSET Url
  <2>1. followed = {} \/ followed \in FirstLinks(d.links)
    OBVIOUS
  <2>2. followed \in FirstLinks(d.links) => followed \subseteq d.links
    BY DEF FirstLinks, kSubset
  <2>3. QED
    BY <1>6, <2>1, <2>2
<1>8. p \in Page /\ p.count = d.faults /\ p.url = Normal(e.at)
  BY <1>2, <1>6, <1>7 DEF Page
<1> HIDE DEF p
<1>9. new \in Seq(Issue) /\ DOMAIN new = 1..d.faults
      /\ \A k \in 1..d.faults : new[k].code = "page" /\ new[k].at = p.url
  <2>1. [code |-> "page", at |-> Normal(e.at)] \in Issue
    BY <1>2 DEF Issue
  <2>2. QED
    BY <1>6, <1>8, <2>1 DEF PageIssues
<1> HIDE DEF new
<1>10. Told(p, new)
  <2>1. p.count > 0 => 1 \in DOMAIN new /\ 1 \in 1..d.faults
    BY <1>6, <1>8, <1>9
  <2>2. QED
    BY <1>9, <2>1 DEF Told
<1>11. QED
  BY <1>1, <1>5, <1>8, <1>9, <1>10, MoreTold, TurnTells DEF Visit, FindingsInv

LEMMA UnreachableTells ==
  ASSUME CrawlInv, FindingsInv, Unreachable
  PROVE  FindingsInv'
<1> DEFINE e == Head(queue)
           p == [asked |-> e.at, url |-> e.at, title |-> None, links |-> {},
                 followed |-> {}, count |-> 1, depth |-> e.depth]
           new == <<[code |-> "fetch_failed", at |-> e.at]>>
<1>1. phase = "crawl" /\ queue # <<>> /\ queue \in Seq(Entry) /\ e \in Entry
  BY DEF CrawlInv, Stages, Shape, Unreachable, Visiting
<1>2. e.at \in Spelling /\ e.depth \in Nat
  BY <1>1 DEF Entry
<1>3. Turn(Tail(queue), Append(pages, p), Append(issues, [code |-> "fetch_failed", at |-> e.at]))
  BY DEF Unreachable
<1> HIDE DEF e
<1>4. p \in Page /\ p.url = e.at
  BY <1>2 DEF Page
<1> HIDE DEF p
<1>5. [code |-> "fetch_failed", at |-> e.at] \in Issue
  BY <1>2 DEF Issue
<1>6. new \in Seq(Issue) /\ DOMAIN new = {1} /\ new[1].code = "fetch_failed" /\ new[1].at = p.url
  BY <1>4, <1>5
<1>7. Append(issues, [code |-> "fetch_failed", at |-> e.at]) = issues \o new
  BY <1>5 DEF FindingsInv
<1>8. Turn(Tail(queue), Append(pages, p), issues \o new)
  BY <1>3, <1>7
<1> HIDE DEF new
<1>9. Told(p, new)
  BY <1>6 DEF Told
<1>10. QED
  BY <1>1, <1>4, <1>6, <1>8, <1>9, MoreTold, TurnTells DEF Unreachable, FindingsInv

LEMMA FindingsGoOn == CrawlInv /\ FindingsInv /\ [Next]_vars => FindingsInv'
<1> SUFFICES ASSUME CrawlInv, FindingsInv, [Next]_vars PROVE FindingsInv'
  OBVIOUS
<1>1. CASE DiscoverSitemaps
  <2>1. PICK others \in SUBSET (Sitemap \ {Default}) :
          \E order \in SetToSeqs(others) : sitemaps' = <<Default>> \o order
    BY <1>1 DEF DiscoverSitemaps
  <2> PICK order \in SetToSeqs(others) : sitemaps' = <<Default>> \o order
    BY <2>1
  <2>2. IsFiniteSet(others) /\ Cardinality(others) \in Nat
    BY SiteAuditAssumption, FS_Subset, FS_CardinalityType
  <2>3. order \in Seq(Sitemap)
    BY <2>2 DEF SetToSeqs
  <2>4. sitemaps' \in Seq(Sitemap) /\ sitemaps' # <<>>
    BY <2>1, <2>3, SiteAuditAssumption
  <2>5. UNCHANGED <<issues, pages>> /\ phase = "robots" /\ phase' = "sitemaps"
    BY <1>1 DEF DiscoverSitemaps
  <2>6. QED
    BY <2>4, <2>5 DEF FindingsInv, NothingDropped, Untruncated
<1>2. CASE SitemapInvalid \/ SitemapRead
  <2>1. phase = "sitemaps" /\ sitemaps' = Tail(sitemaps) /\ phase' \in {"sitemaps", "crawl"}
    BY <1>2 DEF SitemapInvalid, SitemapRead, NextSitemap
  <2>2. sitemaps' \in Seq(Sitemap) /\ (phase' = "sitemaps" => sitemaps' # <<>>)
    BY <1>2, <2>1 DEF FindingsInv, SitemapInvalid, SitemapRead, NextSitemap
  <2>3. pages = <<>> /\ pages' = pages
    BY <1>2, <2>1 DEF SitemapInvalid, SitemapRead, CrawlInv, Stages
  <2>4. issues' \in Seq(Issue)
    <3>1. [code |-> "invalid_sitemap_xml", at |-> Head(sitemaps)] \in Issue
      <4>1. Head(sitemaps) \in Sitemap
        BY <2>1 DEF FindingsInv
      <4>2. QED
        BY <4>1 DEF Issue
    <3>2. issues \in Seq(Issue)
      BY DEF FindingsInv
    <3>3. QED
      BY <1>2, <3>1, <3>2 DEF SitemapInvalid, SitemapRead
  <2>5. DOMAIN pages' = {}
    BY <2>3
  <2>6. QED
    BY <2>1, <2>2, <2>4, <2>5 DEF FindingsInv, NothingDropped, Untruncated
<1>3. CASE SitemapRaises \/ VisitRaises
  <2>1. UNCHANGED <<issues, pages, sitemaps>> /\ phase' = "raised"
    BY <1>3 DEF SitemapRaises, VisitRaises, Raise
  <2>2. QED
    BY <2>1 DEF FindingsInv, NothingDropped, Untruncated
<1>4. CASE Unreachable
  BY <1>4, UnreachableTells
<1>5. CASE Visit
  BY <1>5, VisitTells
<1>6. CASE UNCHANGED vars
  <2>1. UNCHANGED <<issues, pages, sitemaps, phase, truncated>>
    BY <1>6 DEF vars
  <2>2. QED
    BY <2>1 DEF FindingsInv, NothingDropped, Untruncated
<1>7. QED
  BY <1>1, <1>2, <1>3, <1>4, <1>5, <1>6 DEF Next

(* An unmarked report names every page with a problem, and both pages of     *)
(* every pair with one title: audit counts the issues before it cuts them.   *)
THEOREM UnmarkedTellsAll == Spec => []NothingDropped
<1>1. Init => FindingsInv
  BY DEF Init, FindingsInv, NothingDropped, Untruncated
<1>2. FindingsInv => NothingDropped
  BY DEF FindingsInv
<1>3. QED
  BY CrawlAlways, FindingsGoOn, <1>1, <1>2, PTL DEF Spec

-------------------------------------------------------------------------------
(* Above the depth limit, a page within the limit of links per page has all  *)
(* of them followed.                                                         *)
FollowsAll(p) == p.depth < MaxDepth /\ Cardinality(p.links) <= MaxLinks => p.followed = p.links

Follows == \A i \in DOMAIN pages : FollowsAll(pages[i])

LEMMA FollowsMore ==
  ASSUME CrawlInv, Follows, NEW p, FollowsAll(p), pages' = Append(pages, p)
  PROVE  Follows'
<1>1. pages \in Seq(Page \cup {p}) /\ Len(pages) \in Nat /\ DOMAIN pages = 1..Len(pages)
  BY DEF CrawlInv, Shape
<1>2. /\ DOMAIN pages' = 1..(Len(pages) + 1)
      /\ \A i \in 1..Len(pages) : pages'[i] = pages[i]
      /\ pages'[Len(pages) + 1] = p
  BY <1>1
<1>3. \A i \in DOMAIN pages' : i \in DOMAIN pages \/ i = Len(pages) + 1
  BY <1>1, <1>2
<1>4. QED
  BY <1>1, <1>2, <1>3 DEF Follows

LEMMA FollowsGoOn == CrawlInv /\ Follows /\ [Next]_vars => Follows'
<1> SUFFICES ASSUME CrawlInv, Follows, [Next]_vars PROVE Follows'
  OBVIOUS
<1>1. CASE Visit
  <2> DEFINE e == Head(queue)
  <2>1. PICK d \in Parsed : \E followed \in IF e.depth < MaxDepth THEN FirstLinks(d.links) ELSE {{}} :
          pages' = Append(pages, [asked |-> e.at, url |-> Normal(e.at), title |-> d.title, links |-> d.links,
                                  followed |-> followed, count |-> d.faults, depth |-> e.depth])
    BY <1>1 DEF Visit, Turn
  <2>2. PICK followed \in IF e.depth < MaxDepth THEN FirstLinks(d.links) ELSE {{}} :
          pages' = Append(pages, [asked |-> e.at, url |-> Normal(e.at), title |-> d.title, links |-> d.links,
                                  followed |-> followed, count |-> d.faults, depth |-> e.depth])
    BY <2>1
  <2> DEFINE p == [asked |-> e.at, url |-> Normal(e.at), title |-> d.title, links |-> d.links,
                   followed |-> followed, count |-> d.faults, depth |-> e.depth]
  <2> HIDE DEF e
  <2>3. p.depth = e.depth /\ p.links = d.links /\ p.followed = followed
    OBVIOUS
  <2>4. pages' = Append(pages, p)
    BY <2>2
  <2> HIDE DEF p
  <2>5. FollowsAll(p)
    BY <2>3 DEF FollowsAll, FirstLinks
  <2>6. QED
    BY <2>4, <2>5, FollowsMore
<1>2. CASE Unreachable
  <2> DEFINE e == Head(queue)
             p == [asked |-> e.at, url |-> e.at, title |-> None, links |-> {},
                   followed |-> {}, count |-> 1, depth |-> e.depth]
  <2>1. pages' = Append(pages, p)
    BY <1>2 DEF Unreachable, Turn
  <2>2. FollowsAll(p)
    BY DEF FollowsAll
  <2>3. QED
    BY <2>1, <2>2, FollowsMore
<1>3. CASE ~Visit /\ ~Unreachable
  <2>1. pages' = pages
    BY <1>3 DEF Next, DiscoverSitemaps, SitemapInvalid, SitemapRead, SitemapRaises, VisitRaises,
       Raise, vars
  <2>2. QED
    BY <2>1 DEF Follows
<1>4. QED
  BY <1>1, <1>2, <1>3

(* Whatever URLs the providers know, an alleged orphan that a page of an     *)
(* unmarked report links to is spelled in another way than the links do, or  *)
(* the page is at the depth limit or has more links than are followed: any   *)
(* other link is a page of the report under its own URL, so                  *)
(* InternalLinkOperator.graph makes an edge of it.                           *)
THEOREM OrphansHaveCauses == Spec => []OrphansExplained
<1>1. ASSUME CrawlInv, Follows, CompleteWithinLimits, Untruncated, NEW u \in Orphans(Spelling), NEW p \in ToSet(pages),
             Contradicts(p, u), u \notin Variant, ~(p.depth >= MaxDepth), ~(Cardinality(p.links) > MaxLinks)
      PROVE  FALSE
  <2>1. PICK k \in DOMAIN pages : p = pages[k]
    BY DEF ToSet
  <2>2. p \in Page
    BY <1>1, <2>1 DEF CrawlInv, Shape
  <2>3. IsFiniteSet(p.links) /\ Cardinality(p.links) \in Nat
    BY <2>2, SiteAuditAssumption, FS_Subset, FS_CardinalityType DEF Page
  <2>4. p.followed = p.links
    BY <1>1, <2>1, <2>2, <2>3, SiteAuditAssumption DEF Follows, FollowsAll, Page
  <2>5. Normal(u) = u /\ u \in p.links /\ p.url # u
    BY <1>1 DEF Contradicts, Normal
  <2>6. PICK q \in ToSet(pages) : q.asked = u
    BY <1>1, <2>4, <2>5 DEF CompleteWithinLimits
  <2>7. PICK i \in DOMAIN pages : q = pages[i]
    BY DEF ToSet
  <2>8. q.url = u
    BY <1>1, <2>5, <2>6, <2>7 DEF CrawlInv, Named
  <2>9. u \in Crawled
    BY <2>8 DEF Crawled
  <2>10. <<p.url, u>> \in OutEdges(p, Crawled)
    BY <2>5, <2>9 DEF OutEdges
  <2>11. <<p.url, u>> \in Edges
    BY <2>10 DEF Edges
  <2>12. <<p.url, u>>[2] \in Linked
    BY <2>11 DEF Linked
  <2>13. QED
    BY <1>1, <2>12 DEF Orphans
<1>2. CrawlInv /\ Follows /\ CompleteWithinLimits => OrphansExplained
  BY <1>1 DEF OrphansExplained
<1>3. Init => Follows
  BY DEF Init, Follows
<1>4. QED
  BY CrawlAlways, UnmarkedIsComplete, FollowsGoOn, <1>2, <1>3, PTL DEF Spec
===============================================================================
