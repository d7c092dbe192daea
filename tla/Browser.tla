------------------------------ MODULE Browser ------------------------------
(***************************************************************************)
(* One browser tab of the application: the global product filter           *)
(* (lib/product-filter.tsx), the components that write it to the address,  *)
(* the filters of /orgs and /repos, the time range, the chart state kept   *)
(* by useUrlState, and the progress bar.                                   *)
(*                                                                         *)
(* React renders an event handler's updates, and runs their effects,       *)
(* before the next event; what is scheduled with startTransition, a timer  *)
(* or the router happens in a step of its own.  The router is Next.js: a   *)
(* push takes effect later (Commit), the last one wins, and both Back and  *)
(* history.replaceState discard a push under way.                          *)
(*                                                                         *)
(* Lists of products are sets: their order matters to no decision but an   *)
(* extra push.  "lang" stands for the language and the sort, which the code *)
(* keeps and clears alike.  The legacy parameter "product", which no page  *)
(* writes and the syncs of the filter bar drop, is left out.               *)
(***************************************************************************)
EXTENDS Naturals, Sequences, FiniteSets, SequencesExt

CONSTANTS
  Products,     \* allProducts
  Top,          \* defaultProductIds: the first ten of them
  Pair,         \* the two products of the comparison page that is visited
  Links,        \* addresses a tab may be opened with
  NavTargets,   \* pages the navigation links that are clicked lead to
  MaxActs,      \* bound: things the user does
  MaxHist       \* bound: entries Back can return to

NoParam == {"-"}       \* the parameter is absent
None == {"none"}       \* ?products=none

ServerPages == {"/orgs", "/repos"}
SyncPages == {"/products", "/compare"}
PairPage == "/compare/pair"
DetailPage == "/products/id"
FilterPages == SyncPages \cup ServerPages
ComparePages == {"/compare", PairPage}
RangePages == SyncPages \cup {DetailPage}
Paths == FilterPages \cup {PairPage, DetailPage, "/about"}
Flag == {"off", "on"}

Urls == [path : Paths, products : (SUBSET Products) \cup {NoParam, None},
         lang : Flag, q : Flag, page : 1..2, range : {"all", "3m"}, expanded : Flag]
Plain(p) == [path |-> p, products |-> NoParam, lang |-> "off", q |-> "off",
             page |-> 1, range |-> "all", expanded |-> "off"]

ASSUME BrowserAssumption ==
  /\ IsFiniteSet(Products) /\ {"-", "none"} \cap Products = {}
  /\ Top \subseteq Products /\ Top # {}
  /\ Pair \subseteq Products
  /\ Links \subseteq Urls /\ NavTargets \subseteq Paths
  /\ MaxActs \in Nat /\ MaxHist \in Nat

VARIABLES
  url,        \* window.location, which useSearchParams follows
  hist,       \* the entries behind it
  pending,    \* the push under way: its address and who pushed, or NoPush
  selected,   \* selectedProductIds
  range,      \* range of the filter context
  hydrate,    \* products read from the address, in a transition not yet committed
  timer,      \* what the debounced search will push, or NoTimer
  above,      \* "expanded" in the upper part of a comparison page
  below,      \* "expanded" in its lower part, which is streamed later
  bar,        \* the progress bar
  safety,     \* its 20 s timer is set
  fading,     \* its 500 ms timer is set
  raf,        \* its animation frame is requested
  acts,       \* history: what the user has done, counted
  word,       \* history: what spoke last about the products
  hasty,      \* history: the last change of the filter did not wait for the one before
  adrift      \* history: Back has led to an older address of the same page, or the user
              \* did not wait for the products of the address
nav == <<url, hist, pending>>
filter == <<selected, range, hydrate, timer>>
chart == <<above, below>>
progress == <<bar, safety, fading, raf>>
history == <<acts, word, hasty, adrift>>
vars == <<nav, filter, chart, progress, history>>

NoPush == [to |-> Plain("/about"), by |-> "nobody"]
NoHydration == NoParam
NoTimer == Plain("/about")
Unmounted == "unmounted"

IsDefault == selected = Top

\* At rest: nothing the user did is still on its way.
Quiet == pending = NoPush /\ hydrate = NoHydration /\ timer = NoTimer

(***************************************************************************)
(* Addresses.                                                              *)
(***************************************************************************)
\* useFilterUrl: the products unless they are the default, and the range.
FilterUrl(p) == [Plain(p) EXCEPT !.products = IF IsDefault THEN NoParam ELSE selected,
                                 !.range = range]
\* Navigation links keep it on the filter pages, and the cards of /products on a product's.
NavUrl(p) == IF p \in FilterPages \cup {DetailPage} THEN FilterUrl(p) ELSE Plain(p)

\* The products the provider reads from an address: known ones, or none of its business.
ReadProducts(u) == IF u.products = NoParam THEN {} ELSE u.products \cap Products

\* Mutant of Synced: with the default selected the parameter is not deleted.
SyncedKept(u, sel) ==
  IF u.path \in SyncPages /\ sel # Top /\ sel # {} THEN [u EXCEPT !.products = sel] ELSE u

\* The provider's replaceState on /products and /compare.
Synced(u, sel) ==
  IF u.path \in SyncPages
  THEN [u EXCEPT !.products = IF sel # Top /\ sel # {} THEN sel ELSE NoParam]
  ELSE u

\* Mutant of ServerUrl: no sentinel for an empty selection.
ServerUrlNoSentinel(u, sel) ==
  [u EXCEPT !.page = 1, !.products = IF sel = Products THEN NoParam ELSE sel]

\* OrgProductSync and RepoProductSync: everything but page, and the products unless all.
ServerUrl(u, sel) ==
  [u EXCEPT !.page = 1,
            !.products = CASE sel = Products -> NoParam [] sel = {} -> None [] OTHER -> sel]

\* applyFilters: everything but page, with one parameter changed.
Filtered(u, key, val) == [[u EXCEPT !.page = 1] EXCEPT ![key] = val]

\* The products an address of /orgs or /repos lists: productIds of the page, all when
\* there is no parameter or an empty one.
Listed(u) == IF u.products = None THEN {}
             ELSE IF u.products \in {NoParam, {}} THEN Products
             ELSE u.products

(***************************************************************************)
(* The progress bar.                                                       *)
(***************************************************************************)
\* Mutant of StartLoading: no safety timer.
StartLoadingUnwatched == bar' = "loading" /\ fading' = FALSE /\ UNCHANGED <<safety, raf>>

StartLoading == bar' = "loading" /\ safety' = TRUE /\ fading' = FALSE /\ UNCHANGED raf

StartFor(u) == IF u = url THEN UNCHANGED progress ELSE StartLoading
\* The effect on pathname and searchParams: ask for a frame, instead of an earlier one.
Arrived(u) == IF u = url THEN UNCHANGED progress
              ELSE raf' = TRUE /\ UNCHANGED <<bar, safety, fading>>

\* requestAnimationFrame of the effect above.
Frame ==
  /\ raf /\ raf' = FALSE
  /\ IF bar = "loading"
     THEN bar' = "complete" /\ safety' = FALSE /\ fading' = TRUE
     ELSE UNCHANGED <<bar, safety, fading>>
  /\ UNCHANGED <<nav, filter, chart, history>>

SafetyFires ==
  /\ safety /\ safety' = FALSE
  /\ IF bar = "loading"
     THEN bar' = "complete" /\ fading' = TRUE
     ELSE UNCHANGED <<bar, fading>>
  /\ UNCHANGED <<raf, nav, filter, chart, history>>

FadeEnds ==
  /\ fading /\ fading' = FALSE /\ bar' = "idle"
  /\ UNCHANGED <<safety, raf, nav, filter, chart, history>>

(***************************************************************************)
(* Mounting pages.                                                         *)
(***************************************************************************)
\* The tab shows page u of a path it did not show before, with selection sel: the
\* provider's effect on the pathname; PairFilterSync selects the pair; the charts of a
\* comparison page read the address when they mount.
Show(u, sel) ==
  LET now == IF u.path = PairPage THEN Pair ELSE sel
      shown == Synced(u, now)
  IN /\ url' = shown /\ selected' = now
     /\ above' = IF u.path \in ComparePages THEN u.expanded ELSE "off"
     /\ below' = Unmounted

\* A full page load: the provider starts from the default and reads products and range
\* from the address; known products arrive in a transition, and the first run of the
\* sync effect is skipped for them.
Load(u) ==
  LET ids == ReadProducts(u) IN
  /\ hydrate' = IF ids = {} THEN NoHydration ELSE ids
  /\ IF ids # {} /\ u.path # PairPage
     THEN /\ url' = u /\ selected' = Top
          /\ above' = IF u.path \in ComparePages THEN u.expanded ELSE "off"
          /\ below' = Unmounted
     ELSE Show(u, Top)
  /\ range' = u.range
  /\ pending' = NoPush /\ timer' = NoTimer
  /\ bar' = "idle" /\ safety' = FALSE /\ fading' = FALSE /\ raf' = FALSE

Act == acts < MaxActs /\ acts' = acts + 1
Adrift == adrift \/ hydrate # NoHydration
Hurried == adrift' = Adrift

Reload == /\ Act /\ Load(url) /\ UNCHANGED hist
          /\ word' = "load" /\ hasty' = FALSE /\ adrift' = FALSE

(***************************************************************************)
(* The filter bar.                                                         *)
(***************************************************************************)
\* What the effects make of a new selection on the page shown: replaceState, which
\* discards a push under way, the push of OrgProductSync or RepoProductSync unless the
\* address is already right, or that of PairFilterSync, which is watching by then.
PushFor(sel) ==
  IF url.path = PairPage
  THEN [Plain("/compare") EXCEPT !.products = IF sel = {} THEN NoParam ELSE sel]
  ELSE ServerUrl(url, sel)
Pushes(sel) == \/ url.path \in ServerPages /\ ServerUrl(url, sel) # url
               \/ url.path = PairPage /\ sel # Pair
Selected(sel) ==
  /\ selected' = sel
  /\ url' = Synced(url, sel)
  /\ pending' = IF Pushes(sel) THEN [to |-> PushFor(sel), by |-> "products"]
                ELSE IF Synced(url, sel) # url THEN NoPush
                ELSE pending

\* toggleProduct, selectAll, deselectAll, selectTop10: a click on the bar, which starts
\* the progress bar on /orgs and /repos.  It is applied to the selection on screen, and
\* after what a transition still brings.
Choose(sel) ==
  /\ Act
  /\ url.path \in FilterPages \cup {PairPage} /\ sel # selected
  /\ Selected(sel)
  /\ IF url.path \in ServerPages \/ Pushes(sel) THEN StartLoading ELSE Arrived(url')
  /\ hydrate' = NoHydration
  /\ word' = "filter bar" /\ hasty' = ~Quiet
  /\ adrift' = (Adrift /\ url' = url)
  /\ UNCHANGED <<hist, range, timer, chart>>

ToggleProduct(p) ==
  Choose(IF p \in selected THEN selected \ {p} ELSE selected \cup {p})
SelectAll == Choose(Products)
DeselectAll == Choose({})
SelectTop10 == Choose(Top)

\* The transition of the provider's first effect commits.
Hydrate ==
  /\ hydrate # NoHydration /\ hydrate' = NoHydration
  /\ Selected(hydrate)
  /\ IF Pushes(hydrate) THEN StartLoading ELSE Arrived(url')
  /\ word' = "load"
  /\ UNCHANGED <<hist, range, timer, chart, acts, hasty, adrift>>

(***************************************************************************)
(* Links, filters and the time range: pushes.                              *)
(***************************************************************************)
Push(u, who) ==
  /\ pending' = [to |-> u, by |-> who]
  /\ StartFor(u)
  /\ UNCHANGED <<url, hist>>

\* NavLinks and MobileNav.
NavLink(p) ==
  /\ Act /\ NavUrl(p) # url
  /\ Push(NavUrl(p), "link")
  /\ word' = "link"
  /\ Hurried
  /\ UNCHANGED <<filter, chart, hasty>>

\* ProductScopedLink on a product's page: selects the product, then follows the link.
ScopedLink(p, target) ==
  /\ Act /\ url.path = DetailPage
  /\ selected' = {p} /\ hydrate' = NoHydration
  /\ Push([Plain(target) EXCEPT !.products = {p}], "link")
  /\ word' = "link"
  /\ Hurried
  /\ UNCHANGED <<range, timer, chart, hasty>>

\* PaginationLink of /orgs and /repos.
PageLink ==
  /\ Act /\ url.path \in ServerPages
  /\ Push([url EXCEPT !.page = 3 - @], "link")
  /\ word' = "link"
  /\ Hurried
  /\ UNCHANGED <<filter, chart, hasty>>

\* setRange of TimeRangeSelector.
SetRange(r) ==
  /\ Act /\ url.path \in RangePages
  /\ range' = r
  /\ Push([url EXCEPT !.range = r], "range")
  /\ Hurried
  /\ UNCHANGED <<selected, hydrate, timer, chart, word, hasty>>

\* toggleLanguage, a sort button: not while a push of the filters is under way.
ToggleLanguage ==
  /\ Act /\ url.path \in ServerPages /\ pending.by # "filters"
  /\ Push(Filtered(url, "lang", IF url.lang = "on" THEN "off" ELSE "on"), "filters")
  /\ word' = "filters"
  /\ Hurried
  /\ UNCHANGED <<filter, chart, hasty>>

\* Clear all, shown while there is a language or a search.
ClearAll ==
  /\ Act /\ url.path \in ServerPages /\ pending.by # "filters"
  /\ url.lang = "on" \/ url.q = "on"
  /\ Push(Filtered(Filtered(url, "lang", "off"), "q", "off"), "filters")
  /\ word' = "filters"
  /\ Hurried
  /\ UNCHANGED <<filter, chart, hasty>>

\* A key in the search box: applyFilters of this render, 300 ms later.
Type(q) ==
  /\ Act /\ url.path \in ServerPages
  /\ timer' = Filtered(url, "q", q)
  /\ Hurried
  /\ UNCHANGED <<nav, selected, range, hydrate, chart, progress, word, hasty>>

\* The timer is not cleared when the page is left.
TimerFires ==
  /\ timer # NoTimer /\ timer' = NoTimer
  /\ Push(timer, "filters")
  /\ word' = "filters"
  /\ UNCHANGED <<selected, range, hydrate, chart, acts, hasty, adrift>>

\* The router shows what was pushed.
Commit ==
  /\ pending # NoPush /\ pending' = NoPush
  /\ hist' = IF Len(hist) < MaxHist THEN Append(hist, url) ELSE hist
  /\ IF pending.to.path # url.path
     THEN Show(pending.to, selected) /\ adrift' = FALSE
     ELSE url' = pending.to /\ UNCHANGED <<selected, chart, adrift>>
  /\ Arrived(url')
  /\ UNCHANGED <<range, hydrate, timer, acts, word, hasty>>

Back ==
  /\ Act /\ hist # <<>>
  /\ hist' = Front(hist) /\ pending' = NoPush
  /\ LET u == Last(hist) IN
     IF u.path # url.path
     THEN Show(u, selected) /\ adrift' = FALSE
     ELSE url' = u /\ adrift' = TRUE /\ UNCHANGED <<selected, chart>>
  /\ Arrived(url')
  /\ word' = "back"
  /\ UNCHANGED <<range, hydrate, timer, hasty>>

(***************************************************************************)
(* useUrlState: the key "expanded" of the comparison pages.                *)
(***************************************************************************)
\* Mutant of SetExpanded: no event for the other instances.
SetExpandedAlone(v) ==
  /\ Act /\ url.path \in ComparePages /\ v # above
  /\ above' = v /\ UNCHANGED below
  /\ url' = [url EXCEPT !.expanded = v]
  /\ pending' = IF url' = url THEN pending ELSE NoPush
  /\ Arrived(url')
  /\ Hurried
  /\ UNCHANGED <<hist, filter, word, hasty>>

\* setValue: the state, the address, and an event for the other instances.
SetExpanded(v) ==
  /\ Act /\ url.path \in ComparePages /\ v # above
  /\ above' = v
  /\ below' = IF below = Unmounted THEN below ELSE v
  /\ url' = [url EXCEPT !.expanded = v]
  /\ pending' = IF url' = url THEN pending ELSE NoPush
  /\ Arrived(url')
  /\ Hurried
  /\ UNCHANGED <<hist, filter, word, hasty>>

\* The lower part is streamed, mounts and reads the address.
Stream ==
  /\ url.path \in ComparePages /\ below = Unmounted
  /\ below' = url.expanded
  /\ UNCHANGED <<nav, filter, above, progress, history>>

-----------------------------------------------------------------------------
Init ==
  \E u \in Links :
    LET ids == ReadProducts(u)
        sel == IF u.path = PairPage THEN Pair ELSE Top
    IN /\ url = IF ids = {} THEN Synced(u, sel) ELSE u
       /\ selected = sel
       /\ hydrate = IF ids = {} THEN NoHydration ELSE ids
       /\ range = u.range
       /\ above = (IF u.path \in ComparePages THEN u.expanded ELSE "off")
       /\ below = Unmounted
       /\ hist = <<>> /\ pending = NoPush /\ timer = NoTimer
       /\ bar = "idle" /\ safety = FALSE /\ fading = FALSE /\ raf = FALSE
       /\ acts = 0 /\ word = "load" /\ hasty = FALSE /\ adrift = FALSE

User ==
  \/ Reload
  \/ \E p \in Products : ToggleProduct(p)
  \/ SelectAll \/ DeselectAll \/ SelectTop10
  \/ \E p \in NavTargets : NavLink(p)
  \/ \E p \in Products, t \in ServerPages : ScopedLink(p, t)
  \/ PageLink
  \/ \E r \in {"all", "3m"} : SetRange(r)
  \/ ToggleLanguage \/ ClearAll
  \/ \E q \in Flag : Type(q)
  \/ \E v \in Flag : SetExpanded(v)
  \/ Back

App == Hydrate \/ TimerFires \/ Commit \/ Stream \/ Frame \/ SafetyFires \/ FadeEnds

Next == User \/ App

Spec == Init /\ [][Next]_vars
\* Timers fire, transitions commit and pushes end.
FairSpec == Spec /\ WF_vars(Hydrate) /\ WF_vars(TimerFires) /\ WF_vars(Commit)
                 /\ WF_vars(Frame) /\ WF_vars(SafetyFires) /\ WF_vars(FadeEnds)
-----------------------------------------------------------------------------
(* Properties *)

\* The address of /products and /compare can be shared or reloaded: at rest it denotes
\* the selection on screen, however it came about, links, time ranges, discarded pushes
\* and transitions included.  An empty selection cannot be expressed there, and Back to
\* an older address of the same page is not followed by the selection.
Denoted(u) == IF ReadProducts(u) = {} THEN Top ELSE ReadProducts(u)
AddressTellsSelection ==
  Quiet /\ url.path \in SyncPages /\ selected # {} /\ ~adrift
    => Denoted(url) = selected

\* A user who waits for a page to settle before the next click on the filter bar gets the
\* list of /orgs and /repos that the bar announces, nothing and everything included
\* (OrgProductSync tells "none selected" from "no filter").
ListFollowsFilterBar ==
  Quiet /\ url.path \in ServerPages /\ word = "filter bar" /\ ~hasty
    => Listed(url) = selected

\* The same for every user: what org-product-sync.tsx says of itself.  It does not hold:
\* a click that returns to the selection the address still shows is dropped while the
\* push of the click before it is under way.
ProductsFollowSelection ==
  Quiet /\ url.path \in ServerPages /\ word = "filter bar" => Listed(url) = selected

\* The two parts of a comparison page, which keep the expanded table in a state of their
\* own and mount at different times, never part once they agree: every change reaches
\* both, whatever the address does meanwhile.
InstancesStayTogether ==
  [][below = above /\ below' # Unmounted /\ url'.path = url.path => below' = above']_vars

\* The progress bar never hangs: a loading bar is always watched by a timer, and it goes
\* away also when the click that started it changes no address.
BarEnds == bar # "idle" ~> bar = "idle"
=============================================================================
