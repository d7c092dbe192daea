--------------------------- MODULE BrowserProofs ---------------------------
(***************************************************************************)
(* Proofs about the application's tab, for every set of products, default  *)
(* selection, link and length of a visit: the address of the synchronised  *)
(* pages tells the selection, the lists of /orgs and /repos follow the     *)
(* filter bar, and the two parts of a comparison page do not part.         *)
(***************************************************************************)
EXTENDS Browser, TLAPS

TypeOK ==
  /\ url \in Urls /\ hist \in Seq(Urls)
  /\ pending \in [to : Urls, by : {"nobody", "products", "link", "range", "filters"}]
  /\ selected \subseteq Products
  /\ range \in {"all", "3m"}
  /\ hydrate = NoHydration \/ (hydrate \subseteq Products /\ hydrate # {})
  /\ timer \in Urls /\ (timer = NoTimer \/ timer.path \in ServerPages)
  /\ above \in Flag /\ below \in Flag \cup {Unmounted}

\* The address u, once it is the tab's, tells the selection sel; an empty one it cannot tell,
\* and the page falls back to the default.
Agrees(u, sel) == Denoted(u) = IF sel = {} THEN Top ELSE sel

\* On a synchronised page that nobody went astray on, the address agrees with the selection,
\* and so does a push that stays on the page; while the products of the address are still
\* being read there is no such push.
Synchronised ==
  url.path \in SyncPages /\ ~adrift =>
    IF hydrate = NoHydration
    THEN /\ Agrees(url, selected)
         /\ pending.to.path = url.path => Agrees(pending.to, selected)
    ELSE pending.to.path # url.path

\* After a click on the bar that waited for the one before: on /orgs and /repos either the
\* address lists the selection or the push under way will, and elsewhere no push leads there.
BarFollowed ==
  word = "filter bar" /\ ~hasty =>
    /\ hydrate = NoHydration
    /\ IF url.path \in ServerPages
       THEN IF pending = NoPush THEN Listed(url) = selected
            ELSE pending.to.path = url.path /\ Listed(pending.to) = selected
       ELSE pending.to.path \notin ServerPages

IInv == TypeOK /\ Synchronised /\ BarFollowed
-----------------------------------------------------------------------------
(* Addresses *)

\* The marks of no parameter and of none are no selections, and neither is a set of products.
LEMMA Marks ==
  /\ NoParam \cap Products = {} /\ NoParam # None
  /\ \A sel \in SUBSET Products : sel # NoParam /\ sel # None
BY BrowserAssumption DEF NoParam, None

LEMMA PlainIsUrl ==
  ASSUME NEW p \in Paths
  PROVE  Plain(p) \in Urls /\ Plain(p).path = p
BY DEF Plain, Urls, Flag

\* No push and no timer lead to the page "/about", which is neither kind of filter page.
LEMMA Nowhere ==
  /\ NoPush \in [to : Urls, by : {"nobody", "products", "link", "range", "filters"}]
  /\ NoPush.to.path \notin FilterPages /\ NoTimer \in Urls
<1>1. "/about" \in Paths
  BY DEF Paths
<1> QED BY <1>1, PlainIsUrl DEF NoPush, NoTimer, FilterPages, SyncPages, ServerPages

LEMMA UrlFields ==
  ASSUME NEW u \in Urls
  PROVE  /\ u.path \in Paths /\ u.range \in {"all", "3m"} /\ u.expanded \in Flag
         /\ u.products \in (SUBSET Products) \cup {NoParam, None}
         /\ ReadProducts(u) \subseteq Products
BY DEF Urls, ReadProducts

\* An address with one parameter changed, and its page forgotten.
LEMMA ProductsSet ==
  ASSUME NEW u \in Urls, NEW ps \in (SUBSET Products) \cup {NoParam, None}
  PROVE  /\ [u EXCEPT !.products = ps] \in Urls
         /\ [u EXCEPT !.products = ps].path = u.path
         /\ [u EXCEPT !.products = ps].products = ps
BY DEF Urls

LEMMA RangeSet ==
  ASSUME NEW u \in Urls, NEW r \in {"all", "3m"}
  PROVE  /\ [u EXCEPT !.range = r] \in Urls
         /\ [u EXCEPT !.range = r].path = u.path
         /\ [u EXCEPT !.range = r].products = u.products
BY DEF Urls

LEMMA ExpandedSet ==
  ASSUME NEW u \in Urls, NEW e \in Flag
  PROVE  /\ [u EXCEPT !.expanded = e] \in Urls
         /\ [u EXCEPT !.expanded = e].path = u.path
         /\ [u EXCEPT !.expanded = e].products = u.products
BY DEF Urls

LEMMA PageSet ==
  ASSUME NEW u \in Urls, NEW n \in 1..2
  PROVE  /\ [u EXCEPT !.page = n] \in Urls
         /\ [u EXCEPT !.page = n].path = u.path
         /\ [u EXCEPT !.page = n].products = u.products
BY DEF Urls

\* What the provider writes to the address of a synchronised page tells the selection, and
\* other addresses it leaves alone.
LEMMA SyncedTells ==
  ASSUME NEW u \in Urls, NEW sel \in SUBSET Products
  PROVE  /\ Synced(u, sel) \in Urls /\ Synced(u, sel).path = u.path
         /\ u.path \in SyncPages => Agrees(Synced(u, sel), sel)
         /\ u.path \notin SyncPages => Synced(u, sel) = u
<1>1. CASE u.path \notin SyncPages
  BY <1>1 DEF Synced
<1>2. CASE u.path \in SyncPages /\ sel # Top /\ sel # {}
  <2>1. Synced(u, sel) = [u EXCEPT !.products = sel]
    BY <1>2 DEF Synced
  <2>2. ReadProducts(Synced(u, sel)) = sel
    BY <2>1, ProductsSet, Marks DEF ReadProducts
  <2> QED BY <1>2, <2>1, <2>2, ProductsSet DEF Agrees, Denoted
<1>3. CASE u.path \in SyncPages /\ (sel = Top \/ sel = {})
  <2>1. Synced(u, sel) = [u EXCEPT !.products = NoParam]
    BY <1>3 DEF Synced
  <2>2. ReadProducts(Synced(u, sel)) = {}
    BY <2>1, ProductsSet DEF ReadProducts
  <2> QED BY <1>3, <2>1, <2>2, ProductsSet DEF Agrees, Denoted
<1> QED BY <1>1, <1>2, <1>3

\* What OrgProductSync and RepoProductSync push lists the selection.
LEMMA ServerUrlTells ==
  ASSUME NEW u \in Urls, NEW sel \in SUBSET Products
  PROVE  /\ ServerUrl(u, sel) \in Urls /\ ServerUrl(u, sel).path = u.path
         /\ Listed(ServerUrl(u, sel)) = sel
<1> DEFINE v == [u EXCEPT !.page = 1]
<1>0. Products # {} /\ None # NoParam /\ None # {} /\ NoParam # {}
  BY BrowserAssumption DEF None, NoParam
<1>1. v \in Urls /\ v.path = u.path
  <2>1. 1 \in 1..2
    OBVIOUS
  <2> QED BY <2>1, PageSet
<1>2. ASSUME NEW ps \in (SUBSET Products) \cup {NoParam, None},
             ServerUrl(u, sel) = [u EXCEPT !.page = 1, !.products = ps]
      PROVE  /\ ServerUrl(u, sel) \in Urls /\ ServerUrl(u, sel).path = u.path
             /\ ServerUrl(u, sel).products = ps
  <2>1. ServerUrl(u, sel) = [v EXCEPT !.products = ps]
    BY <1>2
  <2> HIDE DEF v
  <2> QED BY <1>1, <2>1, ProductsSet
<1>3. CASE sel = Products
  <2>1. ServerUrl(u, sel) = [u EXCEPT !.page = 1, !.products = NoParam]
    BY <1>0, <1>3 DEF ServerUrl
  <2> QED BY <1>0, <1>2, <1>3, <2>1 DEF Listed
<1>4. CASE sel = {}
  <2>1. ServerUrl(u, sel) = [u EXCEPT !.page = 1, !.products = None]
    BY <1>0, <1>4 DEF ServerUrl
  <2> QED BY <1>0, <1>2, <1>4, <2>1 DEF Listed
<1>5. CASE sel # {} /\ sel # Products
  <2>1. ServerUrl(u, sel) = [u EXCEPT !.page = 1, !.products = sel]
    BY <1>5 DEF ServerUrl
  <2> QED BY <1>0, <1>2, <1>5, <2>1, Marks DEF Listed
<1> QED BY <1>3, <1>4, <1>5

\* The address a link of the filter pages carries tells the selection.
LEMMA NavUrlTells ==
  ASSUME NEW p \in Paths, selected \subseteq Products, range \in {"all", "3m"}
  PROVE  /\ NavUrl(p) \in Urls /\ NavUrl(p).path = p
         /\ p \in SyncPages => Agrees(NavUrl(p), selected)
<1> DEFINE ps == IF selected = Top THEN NoParam ELSE selected
           v == [Plain(p) EXCEPT !.products = ps]
<1>1. FilterUrl(p) = [v EXCEPT !.range = range]
  BY DEF FilterUrl, IsDefault
<1>2. FilterUrl(p) \in Urls /\ FilterUrl(p).path = p /\ FilterUrl(p).products = ps
  <2>1. ps \in (SUBSET Products) \cup {NoParam, None}
    OBVIOUS
  <2> HIDE DEF ps
  <2>2. v \in Urls /\ v.path = p /\ v.products = ps
    BY <2>1, PlainIsUrl, ProductsSet
  <2> HIDE DEF v
  <2> QED BY <1>1, <2>2, RangeSet
<1>3. ReadProducts(FilterUrl(p)) = IF selected = Top THEN {} ELSE selected
  BY <1>2, Marks DEF ReadProducts
<1>4. Agrees(FilterUrl(p), selected)
  BY <1>3 DEF Agrees, Denoted
<1> QED BY <1>2, <1>4, PlainIsUrl DEF NavUrl, FilterPages

LEMMA FilteredIsUrl ==
  ASSUME NEW u \in Urls, NEW key \in {"lang", "q"}, NEW val \in Flag
  PROVE  Filtered(u, key, val) \in Urls /\ Filtered(u, key, val).path = u.path
<1> DEFINE v == [u EXCEPT !.page = 1]
<1>0. v \in Urls /\ v.path = u.path
  <2>1. 1 \in 1..2
    OBVIOUS
  <2> QED BY <2>1, PageSet
<1>1. CASE key = "lang"
  <2>1. Filtered(u, key, val) = [v EXCEPT !.lang = val]
    BY <1>1 DEF Filtered
  <2> HIDE DEF v
  <2> QED BY <1>0, <2>1 DEF Urls
<1>2. CASE key = "q"
  <2>1. Filtered(u, key, val) = [v EXCEPT !.q = val]
    BY <1>2 DEF Filtered
  <2> HIDE DEF v
  <2> QED BY <1>0, <2>1 DEF Urls
<1> QED BY <1>1, <1>2

\* The end of a list of addresses is one, and the rest is a list of them.
LEMMA Histories ==
  ASSUME NEW h \in Seq(Urls), h # <<>>
  PROVE  Front(h) \in Seq(Urls) /\ Last(h) \in Urls
<1>1. Len(h) \in Nat /\ Len(h) > 0
  OBVIOUS
<1>2. Last(h) \in Urls
  BY <1>1 DEF Last
<1>3. SubSeq(h, 1, Len(h) - 1) \in Seq(Urls)
  BY <1>1
<1> QED BY <1>2, <1>3 DEF Front

-----------------------------------------------------------------------------
(* Steps *)

\* A click on the bar chooses some products.
LEMMA BarChooses ==
  ASSUME TypeOK,
         \/ \E p \in Products : ToggleProduct(p)
         \/ SelectAll \/ DeselectAll \/ SelectTop10
  PROVE  \E sel \in SUBSET Products : Choose(sel)
<1>1. ASSUME NEW p \in Products, ToggleProduct(p) PROVE \E sel \in SUBSET Products : Choose(sel)
  <2>1. (IF p \in selected THEN selected \ {p} ELSE selected \cup {p}) \in SUBSET Products
    BY DEF TypeOK
  <2> QED BY <1>1, <2>1 DEF ToggleProduct
<1>2. CASE SelectAll \/ DeselectAll \/ SelectTop10
  BY <1>2, BrowserAssumption DEF SelectAll, DeselectAll, SelectTop10
<1> QED BY <1>1, <1>2

\* The steps that neither show an address nor ask for one.
Aside == \/ \E q \in Flag : Type(q)
         \/ Stream \/ Frame \/ SafetyFires \/ FadeEnds \/ UNCHANGED vars

LEMMA Steps ==
  ASSUME TypeOK, [Next]_vars
  PROVE  \/ Reload \/ Back \/ Commit \/ Hydrate \/ TimerFires
         \/ \E sel \in SUBSET Products : Choose(sel)
         \/ \E p \in NavTargets : NavLink(p)
         \/ \E p \in Products, t \in ServerPages : ScopedLink(p, t)
         \/ PageLink \/ ToggleLanguage \/ ClearAll
         \/ \E r \in {"all", "3m"} : SetRange(r)
         \/ \E v \in Flag : SetExpanded(v)
         \/ Aside
BY BarChooses DEF Next, User, App, Aside

\* What a page that is shown leaves of the state.
LEMMA ShowKeeps ==
  ASSUME NEW u \in Urls, NEW sel \in SUBSET Products, Show(u, sel)
  PROVE  /\ url' \in Urls /\ url'.path = u.path
         /\ selected' \subseteq Products
         /\ above' \in Flag /\ below' = Unmounted
         /\ u.path \in SyncPages => Agrees(url', selected')
         /\ u.path # PairPage => selected' = sel
<1> DEFINE now == IF u.path = PairPage THEN Pair ELSE sel
<1>1. now \in SUBSET Products
  BY BrowserAssumption
<1>2. /\ url' = Synced(u, now) /\ selected' = now
      /\ above' = (IF u.path \in ComparePages THEN u.expanded ELSE "off")
      /\ below' = Unmounted
  BY DEF Show
<1>3. u.expanded \in Flag /\ "off" \in Flag
  BY UrlFields DEF Flag
<1>4. u.path # PairPage => now = sel
  OBVIOUS
<1> HIDE DEF now
<1> QED BY <1>1, <1>2, <1>3, <1>4, SyncedTells

\* What a change of the selection asks for.
LEMMA PushForIsUrl ==
  ASSUME TypeOK, NEW sel \in SUBSET Products
  PROVE  /\ PushFor(sel) \in Urls
         /\ url.path \in ServerPages => /\ PushFor(sel).path = url.path
                                        /\ Listed(PushFor(sel)) = sel
         /\ url.path = PairPage => PushFor(sel).path = "/compare"
<1>1. CASE url.path = PairPage
  <2>1. "/compare" \in Paths /\ PairPage \notin ServerPages
    BY DEF Paths, FilterPages, SyncPages, PairPage, ServerPages
  <2>2. PushFor(sel) = [Plain("/compare") EXCEPT !.products = IF sel = {} THEN NoParam ELSE sel]
    BY <1>1 DEF PushFor
  <2> QED BY <1>1, <2>1, <2>2, PlainIsUrl, ProductsSet
<1>2. CASE url.path # PairPage
  BY <1>2, ServerUrlTells DEF PushFor, TypeOK
<1> QED BY <1>1, <1>2

LEMMA SelectedKeepsType ==
  ASSUME TypeOK, NEW sel \in SUBSET Products, Selected(sel)
  PROVE  /\ url' \in Urls /\ url'.path = url.path /\ selected' \subseteq Products
         /\ pending' \in [to : Urls, by : {"nobody", "products", "link", "range", "filters"}]
<1>1. url' = Synced(url, sel) /\ selected' = sel
  BY DEF Selected
<1>2. pending' \in {[to |-> PushFor(sel), by |-> "products"], NoPush, pending}
  BY DEF Selected
<1> QED BY <1>1, <1>2, SyncedTells, PushForIsUrl, Nowhere DEF TypeOK
-----------------------------------------------------------------------------
(* Types *)

LEMMA InitTypes == Init => TypeOK
<1> SUFFICES ASSUME NEW u \in Links,
                    LET ids == ReadProducts(u)
                        sel == IF u.path = PairPage THEN Pair ELSE Top
                    IN /\ url = IF ids = {} THEN Synced(u, sel) ELSE u
                       /\ selected = sel
                       /\ hydrate = IF ids = {} THEN NoHydration ELSE ids
                       /\ range = u.range
                       /\ above = (IF u.path \in ComparePages THEN u.expanded ELSE "off")
                       /\ below = Unmounted
                       /\ hist = <<>> /\ pending = NoPush /\ timer = NoTimer
             PROVE  TypeOK
  BY DEF Init
<1>1. u \in Urls
  BY BrowserAssumption
<1>2. url \in Urls /\ selected \subseteq Products
  BY <1>1, SyncedTells, BrowserAssumption
<1>3. range \in {"all", "3m"} /\ above \in Flag /\ (hydrate = NoHydration \/ (hydrate \subseteq Products /\ hydrate # {}))
  BY <1>1, UrlFields DEF Flag
<1>4. hist \in Seq(Urls)
  OBVIOUS
<1> QED BY <1>2, <1>3, <1>4, Nowhere DEF TypeOK

\* A page load leaves the address where it is: what it shows tells the selection unless the
\* products of the address are still to be read.
LEMMA LoadKeeps ==
  ASSUME TypeOK, Load(url)
  PROVE  /\ url' \in Urls /\ url'.path = url.path /\ selected' \subseteq Products
         /\ range' \in {"all", "3m"} /\ above' \in Flag /\ below' = Unmounted
         /\ hydrate' = NoHydration \/ (hydrate' \subseteq Products /\ hydrate' # {})
         /\ pending' = NoPush /\ timer' = NoTimer
         /\ url.path \in SyncPages /\ hydrate' = NoHydration => Agrees(url', selected')
<1> DEFINE ids == ReadProducts(url)
<1>1. url \in Urls /\ url.expanded \in Flag /\ "off" \in Flag /\ ids \subseteq Products
  BY UrlFields DEF TypeOK, Flag
<1>2. /\ hydrate' = (IF ids = {} THEN NoHydration ELSE ids)
      /\ range' = url.range /\ pending' = NoPush /\ timer' = NoTimer
  BY DEF Load
<1>3. CASE ids # {} /\ url.path # PairPage
  <2>1. /\ url' = url /\ selected' = Top /\ below' = Unmounted
        /\ above' = (IF url.path \in ComparePages THEN url.expanded ELSE "off")
    BY <1>3 DEF Load
  <2>2. hydrate' # NoHydration
    BY <1>1, <1>2, <1>3, Marks DEF NoHydration
  <2> QED BY <1>1, <1>2, <2>1, <2>2, UrlFields, BrowserAssumption
<1>4. CASE ~(ids # {} /\ url.path # PairPage)
  <2>1. Show(url, Top) /\ Top \in SUBSET Products
    BY <1>4, BrowserAssumption DEF Load
  <2> QED BY <1>1, <1>2, <2>1, ShowKeeps, UrlFields
<1> QED BY <1>3, <1>4

LEMMA TypeStep == TypeOK /\ [Next]_vars => TypeOK'
<1> SUFFICES ASSUME TypeOK, [Next]_vars PROVE TypeOK'
  OBVIOUS
<1> DEFINE Pushed == [to : Urls, by : {"nobody", "products", "link", "range", "filters"}]
<1>0. url \in Urls /\ pending.to \in Urls /\ NoPush \in Pushed
  BY Nowhere DEF TypeOK
<1>1. CASE Reload
  BY <1>1, LoadKeeps, Nowhere DEF TypeOK, Reload
<1>2. CASE Back
  <2> DEFINE u == Last(hist)
  <2>1. Front(hist) \in Seq(Urls) /\ u \in Urls
    BY <1>2, Histories DEF TypeOK, Back
  <2>2. /\ hist' = Front(hist) /\ pending' = NoPush
        /\ UNCHANGED <<range, hydrate, timer>>
        /\ Show(u, selected) \/ (url' = u /\ UNCHANGED <<selected, chart>>)
    BY <1>2 DEF Back
  <2> HIDE DEF u
  <2>3. CASE Show(u, selected)
    BY <2>1, <2>2, <2>3, <1>0, ShowKeeps DEF TypeOK
  <2>4. CASE url' = u /\ UNCHANGED <<selected, chart>>
    BY <2>1, <2>2, <2>4, <1>0 DEF TypeOK, chart
  <2> QED BY <2>2, <2>3, <2>4
<1>3. CASE Commit
  <2> DEFINE u == pending.to
  <2>1. hist' \in Seq(Urls)
    BY <1>3 DEF TypeOK, Commit
  <2>2. /\ pending' = NoPush /\ UNCHANGED <<range, hydrate, timer>>
        /\ Show(u, selected) \/ (url' = u /\ UNCHANGED <<selected, chart>>)
    BY <1>3 DEF Commit
  <2> HIDE DEF u
  <2>3. u \in Urls
    BY <1>0 DEF u
  <2>4. CASE Show(u, selected)
    BY <2>1, <2>2, <2>3, <2>4, <1>0, ShowKeeps DEF TypeOK
  <2>5. CASE url' = u /\ UNCHANGED <<selected, chart>>
    BY <2>1, <2>2, <2>3, <2>5, <1>0 DEF TypeOK, chart
  <2> QED BY <2>2, <2>4, <2>5
<1>4. CASE Hydrate
  <2>1. /\ Selected(hydrate) /\ hydrate \in SUBSET Products /\ hydrate' = NoHydration
        /\ UNCHANGED <<hist, range, timer, chart>>
    BY <1>4 DEF Hydrate, TypeOK
  <2> QED BY <2>1, SelectedKeepsType DEF TypeOK, chart
<1>5. ASSUME NEW sel \in SUBSET Products, Choose(sel) PROVE TypeOK'
  <2>1. /\ Selected(sel) /\ hydrate' = NoHydration
        /\ UNCHANGED <<hist, range, timer, chart>>
    BY <1>5 DEF Choose
  <2> QED BY <2>1, SelectedKeepsType DEF TypeOK, chart
<1>6. CASE TimerFires
  BY <1>0, <1>6, Nowhere DEF TypeOK, TimerFires, Push, chart
<1>7. ASSUME NEW p \in NavTargets, NavLink(p) PROVE TypeOK'
  <2>1. NavUrl(p) \in Urls
    BY NavUrlTells, BrowserAssumption DEF TypeOK
  <2> QED BY <1>7, <2>1 DEF TypeOK, NavLink, Push, filter, chart
<1>8. ASSUME NEW p \in Products, NEW t \in ServerPages, ScopedLink(p, t) PROVE TypeOK'
  <2>1. t \in Paths /\ {p} \in SUBSET Products
    BY DEF Paths, FilterPages
  <2>2. [Plain(t) EXCEPT !.products = {p}] \in Urls
    BY <2>1, PlainIsUrl, ProductsSet
  <2> QED BY <1>8, <2>1, <2>2 DEF TypeOK, ScopedLink, Push, chart
<1>9. CASE PageLink
  <2>1. 3 - url.page \in 1..2
    BY <1>0 DEF Urls
  <2>2. [url EXCEPT !.page = 3 - url.page] \in Urls
    BY <1>0, <2>1, PageSet
  <2>3. [url EXCEPT !.page = 3 - @] = [url EXCEPT !.page = 3 - url.page]
    BY <1>0 DEF Urls
  <2> QED BY <1>9, <2>2, <2>3 DEF TypeOK, PageLink, Push, filter, chart
<1>10. CASE ToggleLanguage
  <2>1. Filtered(url, "lang", IF url.lang = "on" THEN "off" ELSE "on") \in Urls
    BY <1>0, FilteredIsUrl DEF Flag
  <2> QED BY <1>10, <2>1 DEF TypeOK, ToggleLanguage, Push, filter, chart
<1>11. CASE ClearAll
  <2>1. Filtered(Filtered(url, "lang", "off"), "q", "off") \in Urls
    BY <1>0, FilteredIsUrl DEF Flag
  <2> QED BY <1>11, <2>1 DEF TypeOK, ClearAll, Push, filter, chart
<1>12. ASSUME NEW r \in {"all", "3m"}, SetRange(r) PROVE TypeOK'
  BY <1>0, <1>12, RangeSet DEF TypeOK, SetRange, Push, chart
<1>13. ASSUME NEW v \in Flag, SetExpanded(v) PROVE TypeOK'
  <2>1. url' \in Urls /\ pending' \in Pushed
    BY <1>0, <1>13, ExpandedSet DEF TypeOK, SetExpanded
  <2> QED BY <1>13, <2>1 DEF TypeOK, SetExpanded, filter
<1>14. CASE Aside
  <2>1. ASSUME NEW q \in Flag, Type(q) PROVE TypeOK'
    <3>1. Filtered(url, "q", q) \in Urls /\ Filtered(url, "q", q).path = url.path
      BY <1>0, FilteredIsUrl
    <3> QED BY <2>1, <3>1 DEF TypeOK, Type, nav, chart
  <2>2. CASE Stream
    BY <1>0, <2>2, UrlFields DEF TypeOK, Stream, nav, filter
  <2>3. CASE Frame \/ SafetyFires \/ FadeEnds \/ UNCHANGED vars
    BY <2>3 DEF TypeOK, Frame, SafetyFires, FadeEnds, vars, nav, filter, chart
  <2> QED BY <1>14, <2>1, <2>2, <2>3 DEF Aside
<1> QED BY <1>1, <1>2, <1>3, <1>4, <1>5, <1>6, <1>7, <1>8, <1>9, <1>10, <1>11, <1>12,
           <1>13, <1>14, Steps

\* Everything a tab shows, remembers, pushes and waits for is of its kind, on every visit.
THEOREM TypeCorrect == Spec => []TypeOK
BY InitTypes, TypeStep, PTL DEF Spec
-----------------------------------------------------------------------------
(* The address tells the selection *)

\* What a new selection makes of a synchronised page: its address agrees with the selection,
\* and a push under way is discarded if the address changes and left alone if not.
LEMMA SelectedTells ==
  ASSUME TypeOK, NEW sel \in SUBSET Products, Selected(sel), url.path \in SyncPages
  PROVE  /\ selected' = sel /\ url'.path = url.path /\ Agrees(url', sel)
         /\ url' # url => pending'.to.path # url.path
         /\ url' = url => pending' = pending
<1>1. url' = Synced(url, sel) /\ selected' = sel
  BY DEF Selected
<1>2. ~Pushes(sel)
  BY DEF Pushes, SyncPages, ServerPages, PairPage
<1>3. pending' = IF url' # url THEN NoPush ELSE pending
  BY <1>1, <1>2 DEF Selected
<1>4. NoPush.to.path # url.path
  BY Nowhere DEF FilterPages
<1> QED BY <1>1, <1>3, <1>4, SyncedTells DEF TypeOK

\* A page that is shown afresh agrees with the selection, and no push is under way.
LEMMA ShownSynchronised ==
  ASSUME url'.path \in SyncPages => Agrees(url', selected'), pending' = NoPush
  PROVE  Synchronised'
<1>1. url'.path \in SyncPages => pending'.to.path # url'.path
  BY Nowhere DEF FilterPages
<1> QED BY <1>1 DEF Synchronised, Agrees, Denoted, ReadProducts

\* A push that leads away, or whose address agrees with the selection whenever this one does.
LEMMA PushSynchronised ==
  ASSUME Synchronised, NEW u, NEW who, Push(u, who), selected' = selected, Hurried,
         hydrate' = hydrate,
         u.path = url.path /\ url.path \in SyncPages /\ Agrees(url, selected)
           => Agrees(u, selected)
  PROVE  Synchronised'
<1>1. url' = url /\ pending'.to = u
  BY DEF Push
<1>2. SUFFICES ASSUME url.path \in SyncPages, ~adrift'
               PROVE  /\ hydrate = NoHydration /\ Agrees(url, selected)
                      /\ u.path = url.path => Agrees(u, selected)
  BY <1>1 DEF Synchronised, Agrees, Denoted, ReadProducts
<1>3. ~adrift /\ hydrate = NoHydration
  BY <1>2 DEF Hurried, Adrift
<1> QED BY <1>2, <1>3 DEF Synchronised

LEMMA InitSynchronised == Init => Synchronised
<1> SUFFICES ASSUME NEW u \in Links,
                    LET ids == ReadProducts(u)
                        sel == IF u.path = PairPage THEN Pair ELSE Top
                    IN /\ url = IF ids = {} THEN Synced(u, sel) ELSE u
                       /\ selected = sel
                       /\ hydrate = IF ids = {} THEN NoHydration ELSE ids
                       /\ pending = NoPush
             PROVE  Synchronised
  BY DEF Init
<1>1. u \in Urls /\ Top \in SUBSET Products /\ Pair \in SUBSET Products
  BY BrowserAssumption
<1>2. ASSUME url.path \in SyncPages PROVE pending.to.path # url.path
  BY <1>2, Nowhere DEF FilterPages
<1>3. CASE ReadProducts(u) = {}
  <2>1. url.path \in SyncPages => Agrees(url, selected)
    BY <1>1, <1>3, SyncedTells
  <2> QED BY <1>2, <1>3, <2>1 DEF Synchronised
<1>4. CASE ReadProducts(u) # {}
  <2>1. hydrate # NoHydration
    BY <1>1, <1>4, UrlFields, Marks DEF NoHydration
  <2> QED BY <1>2, <2>1 DEF Synchronised
<1> QED BY <1>3, <1>4

LEMMA SynchronisedStep == TypeOK /\ Synchronised /\ [Next]_vars => Synchronised'
<1> SUFFICES ASSUME TypeOK, Synchronised, [Next]_vars PROVE Synchronised'
  OBVIOUS
<1>0. url \in Urls /\ pending.to \in Urls
  BY DEF TypeOK
<1>1. CASE Reload
  <2>1. Load(url)
    BY <1>1 DEF Reload
  <2>2. url'.path \in SyncPages => pending'.to.path # url'.path
    BY <2>1, LoadKeeps, Nowhere DEF FilterPages
  <2>3. url'.path \in SyncPages /\ hydrate' = NoHydration => Agrees(url', selected')
    BY <2>1, LoadKeeps
  <2> QED BY <2>2, <2>3 DEF Synchronised, Agrees, Denoted, ReadProducts
<1>2. CASE Back
  <2> DEFINE u == Last(hist)
  <2>1. u \in Urls
    BY <1>2, Histories DEF TypeOK, Back
  <2>2. pending' = NoPush /\ (Show(u, selected) \/ adrift' = TRUE)
    BY <1>2 DEF Back
  <2> HIDE DEF u
  <2>3. CASE Show(u, selected)
    BY <2>1, <2>2, <2>3, ShowKeeps, ShownSynchronised DEF TypeOK
  <2>4. CASE adrift' = TRUE
    BY <2>4 DEF Synchronised
  <2> QED BY <2>2, <2>3, <2>4
<1>3. CASE Commit
  <2>1. CASE pending.to.path # url.path
    <3>1. Show(pending.to, selected) /\ pending' = NoPush
      BY <1>3, <2>1 DEF Commit
    <3> QED BY <1>0, <3>1, ShowKeeps, ShownSynchronised DEF TypeOK
  <2>2. CASE pending.to.path = url.path
    <3>1. /\ url' = pending.to /\ selected' = selected /\ adrift' = adrift
          /\ hydrate' = hydrate /\ pending' = NoPush
      BY <1>3, <2>2 DEF Commit
    <3>2. CASE adrift
      BY <3>1, <3>2 DEF Synchronised
    <3>3. CASE ~adrift
      <4>1. url'.path \in SyncPages => Agrees(url', selected')
        BY <2>2, <3>1, <3>3 DEF Synchronised
      <4> QED BY <3>1, <4>1, ShownSynchronised
    <3> QED BY <3>2, <3>3
  <2> QED BY <2>1, <2>2
<1>4. CASE Hydrate
  <2>1. /\ Selected(hydrate) /\ hydrate \in SUBSET Products /\ hydrate # NoHydration
        /\ hydrate' = NoHydration /\ adrift' = adrift
    BY <1>4 DEF Hydrate, TypeOK
  <2>2. SUFFICES ASSUME url.path \in SyncPages, ~adrift
                 PROVE  Agrees(url', selected') /\ pending'.to.path # url'.path
    <3>1. url'.path = url.path
      BY <2>1, SelectedKeepsType
    <3> QED BY <2>1, <3>1 DEF Synchronised, Agrees, Denoted, ReadProducts
  <2>3. pending.to.path # url.path
    BY <2>1, <2>2 DEF Synchronised
  <2> QED BY <2>1, <2>2, <2>3, SelectedTells
<1>5. ASSUME NEW sel \in SUBSET Products, Choose(sel) PROVE Synchronised'
  <2>1. /\ Selected(sel) /\ hydrate' = NoHydration
        /\ adrift' = (Adrift /\ url' = url)
    BY <1>5 DEF Choose
  <2>2. SUFFICES ASSUME url.path \in SyncPages, ~adrift'
                 PROVE  /\ Agrees(url', selected')
                        /\ pending'.to.path = url'.path => Agrees(pending'.to, selected')
    <3>1. url'.path = url.path
      BY <2>1, SelectedKeepsType
    <3> QED BY <2>1, <3>1, <2>2 DEF Synchronised, Agrees, Denoted, ReadProducts
  <2>3. selected' = sel /\ url'.path = url.path /\ Agrees(url', sel)
    BY <2>1, <2>2, SelectedTells
  <2>4. CASE url' # url
    BY <2>1, <2>2, <2>3, <2>4, SelectedTells
  <2>5. CASE url' = url
    <3>1. ~adrift /\ hydrate = NoHydration
      BY <2>1, <2>2, <2>5 DEF Adrift
    <3>2. pending' = pending
      BY <2>1, <2>2, <2>5, SelectedTells
    <3>3. /\ Agrees(url, selected)
          /\ pending.to.path = url.path => Agrees(pending.to, selected)
      BY <2>2, <3>1 DEF Synchronised
    <3> QED BY <2>3, <2>5, <3>2, <3>3 DEF Agrees
  <2> QED BY <2>4, <2>5
<1>6. CASE TimerFires
  <2>1. timer.path \in ServerPages /\ timer.path \notin SyncPages
    BY <1>6 DEF TypeOK, TimerFires, ServerPages, SyncPages
  <2>2. /\ url' = url /\ pending'.to = timer /\ selected' = selected
        /\ hydrate' = hydrate /\ adrift' = adrift
    BY <1>6 DEF TimerFires, Push
  <2> QED BY <2>1, <2>2 DEF Synchronised, Agrees, Denoted, ReadProducts
<1>7. ASSUME NEW p \in NavTargets, NavLink(p) PROVE Synchronised'
  <2>1. NavUrl(p).path = p /\ (p \in SyncPages => Agrees(NavUrl(p), selected))
    BY NavUrlTells, BrowserAssumption DEF TypeOK
  <2>2. /\ Push(NavUrl(p), "link") /\ selected' = selected /\ hydrate' = hydrate /\ Hurried
    BY <1>7 DEF NavLink, filter
  <2> QED BY <2>1, <2>2, PushSynchronised
<1>8. ASSUME NEW p \in Products, NEW t \in ServerPages, ScopedLink(p, t) PROVE Synchronised'
  <2>1. url' = url /\ url.path \notin SyncPages
    BY <1>8 DEF ScopedLink, Push, DetailPage, SyncPages
  <2> QED BY <2>1 DEF Synchronised
<1>9. CASE PageLink \/ ToggleLanguage \/ ClearAll
  <2>1. url' = url /\ url.path \in ServerPages
    BY <1>9 DEF PageLink, ToggleLanguage, ClearAll, Push
  <2>2. url.path \notin SyncPages
    BY <2>1 DEF ServerPages, SyncPages
  <2> QED BY <2>1, <2>2 DEF Synchronised
<1>10. ASSUME NEW r \in {"all", "3m"}, SetRange(r) PROVE Synchronised'
  <2>1. /\ Push([url EXCEPT !.range = r], "range") /\ selected' = selected
        /\ hydrate' = hydrate /\ Hurried
    BY <1>10 DEF SetRange
  <2>2. Agrees(url, selected) => Agrees([url EXCEPT !.range = r], selected)
    BY <1>0, RangeSet DEF Agrees, Denoted, ReadProducts
  <2> QED BY <2>1, <2>2, PushSynchronised
<1>11. ASSUME NEW v \in Flag, SetExpanded(v) PROVE Synchronised'
  <2>1. /\ url' = [url EXCEPT !.expanded = v] /\ selected' = selected /\ hydrate' = hydrate
        /\ pending' = IF url' = url THEN pending ELSE NoPush
        /\ adrift' = Adrift
    BY <1>11 DEF SetExpanded, filter, Hurried
  <2>2. url'.path = url.path /\ url'.products = url.products
    BY <1>0, <2>1, ExpandedSet
  <2>3. SUFFICES ASSUME url.path \in SyncPages, ~adrift'
                 PROVE  /\ hydrate = NoHydration /\ Agrees(url', selected)
                        /\ pending'.to.path = url.path => Agrees(pending'.to, selected)
    BY <2>1, <2>2 DEF Synchronised, Agrees, Denoted, ReadProducts
  <2>4. ~adrift /\ hydrate = NoHydration
    BY <2>1, <2>3 DEF Adrift
  <2>5. /\ Agrees(url, selected)
        /\ pending.to.path = url.path => Agrees(pending.to, selected)
    BY <2>3, <2>4 DEF Synchronised
  <2>6. Agrees(url', selected)
    BY <2>2, <2>5 DEF Agrees, Denoted, ReadProducts
  <2>7. NoPush.to.path # url.path
    BY <2>3, Nowhere DEF FilterPages
  <2> QED BY <2>1, <2>4, <2>5, <2>6, <2>7
<1>12. CASE Aside
  <2>1. /\ url' = url /\ pending' = pending /\ selected' = selected /\ hydrate' = hydrate
        /\ ~adrift' => ~adrift
    <3>1. CASE \E q \in Flag : Type(q)
      BY <3>1 DEF Type, Hurried, Adrift, nav
    <3>2. CASE Stream \/ Frame \/ SafetyFires \/ FadeEnds \/ UNCHANGED vars
      BY <3>2 DEF Stream, Frame, SafetyFires, FadeEnds, vars, nav, filter, history
    <3> QED BY <1>12, <3>1, <3>2 DEF Aside
  <2> QED BY <2>1 DEF Synchronised, Agrees, Denoted, ReadProducts
<1> QED BY <1>1, <1>2, <1>3, <1>4, <1>5, <1>6, <1>7, <1>8, <1>9, <1>10, <1>11, <1>12, Steps

\* The address of /products and /compare tells the selection on every quiet page of every
\* visit, though a click replaces the address and discards a push, links and time ranges push
\* one written before, and the products of a shared link arrive late.
THEOREM AddressesTellSelection == Spec => []AddressTellsSelection
<1>1. Synchronised => AddressTellsSelection
  BY DEF Synchronised, AddressTellsSelection, Quiet, Agrees
<1> QED BY <1>1, InitSynchronised, SynchronisedStep, TypeCorrect, PTL DEF Spec
-----------------------------------------------------------------------------
(* The lists follow the filter bar *)

\* What a click makes of a settled tab: a push that lists the selection, an address that does,
\* or nothing that leads to /orgs or /repos.
LEMMA SelectedFollows ==
  ASSUME TypeOK, NEW sel \in SUBSET Products, Selected(sel), pending = NoPush
  PROVE  IF url'.path \in ServerPages
         THEN IF pending' = NoPush THEN Listed(url') = selected'
              ELSE pending'.to.path = url'.path /\ Listed(pending'.to) = selected'
         ELSE pending'.to.path \notin ServerPages
<1>0. url \in Urls /\ selected' = sel /\ url'.path = url.path
  BY SelectedKeepsType DEF TypeOK, Selected
<1>1. CASE url.path \in ServerPages
  <2>1. url' = url
    BY <1>0, <1>1, SyncedTells DEF Selected, SyncPages, ServerPages
  <2>2. CASE ServerUrl(url, sel) # url
    <3>1. pending' = [to |-> PushFor(sel), by |-> "products"]
      BY <1>1, <2>2 DEF Selected, Pushes
    <3>2. PushFor(sel).path = url.path /\ Listed(PushFor(sel)) = sel
      BY <1>1, PushForIsUrl
    <3>3. pending'.to = PushFor(sel)
      BY <3>1
    <3>4. pending' # NoPush
      BY <1>1, <3>2, <3>3, Nowhere DEF FilterPages
    <3> QED BY <1>0, <1>1, <2>1, <3>2, <3>3, <3>4
  <2>3. CASE ServerUrl(url, sel) = url
    <3>1. ~Pushes(sel)
      BY <1>1, <2>3 DEF Pushes, ServerPages, PairPage
    <3>2. pending' = NoPush
      BY <3>1 DEF Selected
    <3>3. Listed(url) = sel
      BY <1>0, <2>3, ServerUrlTells
    <3> QED BY <1>0, <1>1, <2>1, <3>2, <3>3
  <2> QED BY <2>2, <2>3
<1>2. CASE url.path \notin ServerPages
  <2>1. CASE Pushes(sel)
    <3>1. url.path = PairPage /\ pending' = [to |-> PushFor(sel), by |-> "products"]
      BY <1>2, <2>1 DEF Selected, Pushes
    <3>2. pending'.to.path = "/compare"
      BY <3>1, PushForIsUrl
    <3> QED BY <1>0, <1>2, <3>2 DEF ServerPages
  <2>2. CASE ~Pushes(sel)
    <3>1. pending' = NoPush
      BY <2>2 DEF Selected
    <3> QED BY <1>0, <1>2, <3>1, Nowhere DEF FilterPages
  <2> QED BY <2>1, <2>2
<1> QED BY <1>1, <1>2

LEMMA BarStep == TypeOK /\ BarFollowed /\ [Next]_vars => BarFollowed'
<1> SUFFICES ASSUME TypeOK, BarFollowed, [Next]_vars, word' = "filter bar", ~hasty'
             PROVE  /\ hydrate' = NoHydration
                    /\ IF url'.path \in ServerPages
                       THEN IF pending' = NoPush THEN Listed(url') = selected'
                            ELSE pending'.to.path = url'.path /\ Listed(pending'.to) = selected'
                       ELSE pending'.to.path \notin ServerPages
  BY DEF BarFollowed, Listed
<1>0. url \in Urls
  BY DEF TypeOK
<1>1. CASE Reload \/ Back \/ Hydrate \/ TimerFires \/ PageLink \/ ToggleLanguage \/ ClearAll
  BY <1>1 DEF Reload, Back, Hydrate, TimerFires, PageLink, ToggleLanguage, ClearAll
<1>2. CASE \/ \E p \in NavTargets : NavLink(p)
           \/ \E p \in Products, t \in ServerPages : ScopedLink(p, t)
  BY <1>2 DEF NavLink, ScopedLink
<1>3. ASSUME NEW sel \in SUBSET Products, Choose(sel)
      PROVE  /\ hydrate' = NoHydration
             /\ IF url'.path \in ServerPages
                THEN IF pending' = NoPush THEN Listed(url') = selected'
                     ELSE pending'.to.path = url'.path /\ Listed(pending'.to) = selected'
                ELSE pending'.to.path \notin ServerPages
  <2>1. Selected(sel) /\ hydrate' = NoHydration /\ pending = NoPush
    BY <1>3 DEF Choose, Quiet
  <2> QED BY <2>1, SelectedFollows
<1>4. CASE Commit
  <2>1. /\ pending # NoPush /\ pending' = NoPush /\ hydrate' = hydrate
        /\ word = "filter bar" /\ ~hasty
    BY <1>4 DEF Commit
  <2>2. hydrate = NoHydration
    BY <2>1 DEF BarFollowed
  <2>3. CASE url.path \in ServerPages
    <3>1. pending.to.path = url.path /\ Listed(pending.to) = selected
      BY <2>1, <2>3 DEF BarFollowed
    <3>2. url' = pending.to /\ selected' = selected
      BY <1>4, <3>1 DEF Commit
    <3> QED BY <2>1, <2>2, <2>3, <3>1, <3>2
  <2>4. CASE url.path \notin ServerPages
    <3>1. pending.to.path \notin ServerPages /\ pending.to \in Urls
      BY <2>1, <2>4 DEF BarFollowed, TypeOK
    <3>2. url' = pending.to \/ Show(pending.to, selected)
      BY <1>4 DEF Commit
    <3>3. url'.path \notin ServerPages
      BY <3>1, <3>2, ShowKeeps DEF TypeOK
    <3>4. pending'.to.path \notin ServerPages
      BY <2>1, Nowhere DEF FilterPages
    <3> QED BY <2>1, <2>2, <3>3, <3>4
  <2> QED BY <2>3, <2>4
<1>5. ASSUME NEW r \in {"all", "3m"}, SetRange(r)
      PROVE  /\ hydrate' = NoHydration /\ url'.path \notin ServerPages
             /\ pending'.to.path \notin ServerPages
  <2>1. url.path \in RangePages /\ url' = url /\ hydrate' = hydrate /\ word = "filter bar" /\ ~hasty
        /\ pending'.to = [url EXCEPT !.range = r]
    BY <1>5 DEF SetRange, Push
  <2>2. url.path \notin ServerPages
    BY <2>1 DEF RangePages, SyncPages, DetailPage, ServerPages
  <2> QED BY <1>0, <2>1, <2>2, RangeSet DEF BarFollowed
<1>6. ASSUME NEW v \in Flag, SetExpanded(v)
      PROVE  /\ hydrate' = NoHydration /\ url'.path \notin ServerPages
             /\ pending'.to.path \notin ServerPages
  <2>1. /\ url.path \in ComparePages /\ url' = [url EXCEPT !.expanded = v] /\ hydrate' = hydrate
        /\ word = "filter bar" /\ ~hasty /\ pending' \in {pending, NoPush}
    BY <1>6 DEF SetExpanded, filter
  <2>2. url.path \notin ServerPages /\ url'.path = url.path
    BY <1>0, <2>1, ExpandedSet DEF ComparePages, PairPage, ServerPages
  <2> QED BY <2>1, <2>2, Nowhere DEF BarFollowed, FilterPages
<1>7. CASE Aside
  <2>1. /\ url' = url /\ pending' = pending /\ selected' = selected /\ hydrate' = hydrate
        /\ word' = word /\ hasty' = hasty
    <3>1. CASE \E q \in Flag : Type(q)
      BY <3>1 DEF Type, nav
    <3>2. CASE Stream \/ Frame \/ SafetyFires \/ FadeEnds \/ UNCHANGED vars
      BY <3>2 DEF Stream, Frame, SafetyFires, FadeEnds, vars, nav, filter, history
    <3> QED BY <1>7, <3>1, <3>2 DEF Aside
  <2>2. word = "filter bar" /\ ~hasty
    BY <2>1
  <2> QED BY <2>1, <2>2 DEF BarFollowed
<1> QED BY <1>1, <1>2, <1>3, <1>4, <1>5, <1>6, <1>7, Steps

\* Whoever waits for a page to settle before the next click on the bar gets the list the bar
\* announces, on /orgs and on /repos, whatever the tab went through before that click.
THEOREM ListsFollowFilterBar == Spec => []ListFollowsFilterBar
<1>1. Init => BarFollowed
  BY DEF Init, BarFollowed
<1>2. BarFollowed => ListFollowsFilterBar
  BY DEF BarFollowed, ListFollowsFilterBar, Quiet
<1> QED BY <1>1, <1>2, BarStep, TypeCorrect, PTL DEF Spec

-----------------------------------------------------------------------------
(* The two parts of a comparison page *)

\* Parts that agree change together: the event of setValue reaches the one that did not write,
\* and a part that mounts later is not one that agreed.
THEOREM PartsStayTogether == Spec => InstancesStayTogether
<1>1. ASSUME TypeOK, [Next]_vars, below = above, below' # Unmounted
      PROVE  below' = above'
  <2>1. above # Unmounted
    <3>1. above \in {"off", "on"}
      BY <1>1 DEF TypeOK, Flag
    <3> QED BY <3>1 DEF Unmounted
  <2>2. CASE Reload
    BY <1>1, <2>2, LoadKeeps DEF Reload
  <2>3. CASE Back \/ Commit
    <3>1. (\E u : Show(u, selected)) \/ UNCHANGED chart
      BY <2>3 DEF Back, Commit
    <3> QED BY <1>1, <3>1 DEF Show, chart
  <2>4. CASE Hydrate \/ TimerFires \/ \E sel \in SUBSET Products : Choose(sel)
    BY <1>1, <2>4 DEF Hydrate, TimerFires, Choose, chart
  <2>5. CASE \/ \E p \in NavTargets : NavLink(p)
             \/ \E p \in Products, t \in ServerPages : ScopedLink(p, t)
             \/ PageLink \/ ToggleLanguage \/ ClearAll
             \/ \E r \in {"all", "3m"} : SetRange(r)
    BY <1>1, <2>5 DEF NavLink, ScopedLink, PageLink, ToggleLanguage, ClearAll, SetRange, chart
  <2>6. CASE \E v \in Flag : SetExpanded(v)
    BY <1>1, <2>1, <2>6 DEF SetExpanded
  <2>7. CASE Aside
    BY <1>1, <2>1, <2>7 DEF Aside, Type, Stream, Frame, SafetyFires, FadeEnds, vars, filter, chart
  <2> QED BY <1>1, <2>2, <2>3, <2>4, <2>5, <2>6, <2>7, Steps
<1>2. TypeOK /\ [Next]_vars =>
        [below = above /\ below' # Unmounted /\ url'.path = url.path => below' = above']_vars
  BY <1>1
<1> QED BY <1>2, TypeCorrect, PTL DEF Spec, InstancesStayTogether
=============================================================================
