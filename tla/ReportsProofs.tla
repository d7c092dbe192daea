---------------------------- MODULE ReportsProofs ----------------------------
(***************************************************************************)
(* What holds of the reports whatever the tables hold, for any bots,       *)
(* products, repositories, pull requests, weeks and rows: that the lists   *)
(* and pages of the application give the same number along every path      *)
(* (Listings), that a time range changes what it is about and nothing else *)
(* (Trends), that every event of the archive is counted once (Discovery),  *)
(* and when the alarms of pipeline status and discover-bots ring (Health). *)
(*                                                                         *)
(* Sums are compared by their groups (CountingProofs): a sum over rows is  *)
(* that of its groups, whatever the key, so that two sums are equal once   *)
(* the same rows are in them.                                              *)
(***************************************************************************)
EXTENDS Discovery, Health, CountingProofs, SequenceTheorems, TLAPS

-----------------------------------------------------------------------------
(* The pages of organizations and repositories *)

LEMMA Databased ==
  ASSUME DatabaseOK(db)
  PROVE  /\ db.events \subseteq PullRequests \X Accounts /\ IsFiniteSet(db.events)
         /\ db.reactions \subseteq PullRequests \X Accounts /\ IsFiniteSet(db.reactions)
         /\ db.seen \subseteq PullRequests \X Accounts /\ IsFiniteSet(db.seen)
         /\ db.ok \subseteq Repositories \X Copies /\ IsFiniteSet(db.ok)
         /\ IsFiniteSet(Accounts) /\ db.listed \subseteq Accounts
         /\ \A pr \in PullRequests : pr[1] \in Repositories
         /\ \A r \in Repositories : r[1] \in Owners
         /\ \A row \in db.ok : row = <<row[1], row[2]>> /\ row[1] \in Repositories
                              /\ row[1][1] \in Owners
BY ListingsAssumption DEF DatabaseOK, Owners

\* The PRs some bots had an event on are finitely many, whoever they are.
LEMMA Events ==
  ASSUME DatabaseOK(db), NEW A
  PROVE  /\ IsFiniteSet(EventPRs(A)) /\ EventPRs(A) \subseteq PullRequests
         /\ \A B \in SUBSET A : EventPRs(B) \subseteq EventPRs(A)
         /\ EventPRs(A) \subseteq EventPRs(Accounts)
         /\ \A r : IsFiniteSet(PRsIn(r, A)) /\ EventCount(r, A) \in Nat
<1> DEFINE own == {d \in db.events : d[2] \in A}
           f == [e \in own |-> e[1]]
<1>1. IsFiniteSet(own)
  BY Databased, FS_Subset
<1>2. EventPRs(A) = {f[e] : e \in own}
  BY DEF EventPRs
<1>3. IsFiniteSet(EventPRs(A))
  <2> HIDE DEF own, f
  <2> QED BY <1>1, <1>2, FiniteRange
<1>4. \A r : IsFiniteSet(PRsIn(r, A)) /\ EventCount(r, A) \in Nat
  <2> SUFFICES ASSUME NEW r PROVE IsFiniteSet(PRsIn(r, A)) /\ EventCount(r, A) \in Nat
    OBVIOUS
  <2>1. PRsIn(r, A) \in SUBSET EventPRs(A)
    BY DEF PRsIn
  <2> QED BY <1>3, <2>1, FS_Subset, FS_CardinalityType DEF EventCount
<1>5. EventPRs(A) \subseteq PullRequests /\ EventPRs(A) \subseteq EventPRs(Accounts)
  BY Databased DEF EventPRs
<1>6. \A B \in SUBSET A : EventPRs(B) \subseteq EventPRs(A)
  BY DEF EventPRs
<1> QED BY <1>3, <1>4, <1>5, <1>6

\* The PRs a bot only reacted to.
ReactedIn(repo, b) == {x \in Reacted({b}) : x[1][1] = repo /\ x[1] \notin SeenPRs}
OnlyReacted(repo, b) == {x[1] : x \in ReactedIn(repo, b)}

LEMMA Exclusives ==
  ASSUME DatabaseOK(db), NEW r, NEW b
  PROVE  /\ IsFiniteSet(OnlyReacted(r, b)) /\ Cardinality(OnlyReacted(r, b)) = Exclusive(r, b)
         /\ Exclusive(r, b) \in Nat
<1>1. IsFiniteSet(ReactedIn(r, b))
  <2>1. ReactedIn(r, b) \in SUBSET db.reactions
    BY DEF ReactedIn, Reacted
  <2> QED BY <2>1, Databased, FS_Subset
<1> DEFINE f == [x \in ReactedIn(r, b) |-> x[1]]
<1>2. \A x, y \in ReactedIn(r, b) : f[x] = f[y] => x = y
  <2> SUFFICES ASSUME NEW x \in ReactedIn(r, b), NEW y \in ReactedIn(r, b), x[1] = y[1] PROVE x = y
    OBVIOUS
  <2>1. x[2] = b /\ y[2] = b /\ x \in PullRequests \X Accounts /\ y \in PullRequests \X Accounts
    BY Databased DEF ReactedIn, Reacted
  <2> QED BY <2>1
<1>3. OnlyReacted(r, b) = {f[x] : x \in ReactedIn(r, b)}
  BY DEF OnlyReacted
<1>4. Exclusive(r, b) = Cardinality(ReactedIn(r, b))
  BY DEF Exclusive, ReactedIn
<1> HIDE DEF f
<1> QED BY <1>1, <1>2, <1>3, <1>4, SameNumber, FS_CardinalityType

LEMMA MostExclusive ==
  ASSUME DatabaseOK(db), NEW r, NEW A \in SUBSET Accounts
  PROVE  /\ ExclusiveMax(r, A) \in Nat
         /\ ExclusiveMax(r, A) # 0 => \E b \in A : ExclusiveMax(r, A) = Exclusive(r, b)
<1> DEFINE f == [b \in A |-> Exclusive(r, b)]
           S == {Exclusive(r, b) : b \in A}
<1>1. IsFiniteSet(S)
  <2>1. IsFiniteSet(A)
    BY Databased, FS_Subset
  <2>2. S = {f[b] : b \in A}
    OBVIOUS
  <2> HIDE DEF f, S
  <2> QED BY <2>1, <2>2, FiniteRange
<1>2. S \subseteq Nat
  BY Exclusives
<1> DEFINE T == S \cup {0}
<1>3. IsFiniteSet(T) /\ T \in SUBSET Int /\ T # {}
  <2> HIDE DEF S
  <2> QED BY <1>1, <1>2, FS_AddElement
<1>4. Max(T) \in T
  <2> HIDE DEF T
  <2> QED BY <1>3, MaxMin
<1>5. ExclusiveMax(r, A) = Max(T)
  BY DEF ExclusiveMax
<1>6. T \subseteq Nat
  BY <1>2
<1>7. \A n \in T : n # 0 => \E b \in A : n = Exclusive(r, b)
  OBVIOUS
<1> HIDE DEF T
<1> QED BY <1>4, <1>5, <1>6, <1>7

\* The PRs in a repository some bots had an event on, or a reaction.
Touched(A) == EventPRs(A) \cup {x[1] : x \in {y \in db.reactions : y[2] \in A}}

LEMMA NoneTwice ==
  ASSUME DatabaseOK(db), db.seen = db.events, NEW r, NEW A \in SUBSET Accounts, NEW b \in A
  PROVE  /\ IsFiniteSet({pr \in Touched(A) : pr[1] = r})
         /\ EventCount(r, A) + Exclusive(r, b) <= Cardinality({pr \in Touched(A) : pr[1] = r})
<1> DEFINE all == {pr \in Touched(A) : pr[1] = r}
           E == PRsIn(r, A)
           R == OnlyReacted(r, b)
<1>1. IsFiniteSet(E) /\ IsFiniteSet(R) /\ EventCount(r, A) = Cardinality(E)
      /\ Exclusive(r, b) = Cardinality(R)
  BY Events, Exclusives DEF EventCount
<1>2. E \cap R = {}
  <2>1. SeenPRs = EventPRs(Accounts)
    BY Databased DEF SeenPRs, EventPRs
  <2>2. E \subseteq SeenPRs
    BY <2>1, Events DEF PRsIn
  <2> QED BY <2>2 DEF OnlyReacted, ReactedIn
<1>3. E \cup R \subseteq all
  BY DEF PRsIn, OnlyReacted, ReactedIn, Reacted, Touched
<1>4. IsFiniteSet(Touched(A))
  <2> DEFINE own == {y \in db.reactions : y[2] \in A}
             f == [x \in own |-> x[1]]
  <2>1. IsFiniteSet(own)
    BY Databased, FS_Subset
  <2> DEFINE T == {x[1] : x \in own}
  <2>2. T = {f[x] : x \in own}
    OBVIOUS
  <2>3. IsFiniteSet(T)
    <3> HIDE DEF own, f, T
    <3> QED BY <2>1, <2>2, FiniteRange
  <2> QED BY <2>3, Events, FS_Union DEF Touched
<1>5. IsFiniteSet(all)
  <2>1. all \in SUBSET Touched(A)
    OBVIOUS
  <2> HIDE DEF all
  <2> QED BY <1>4, <2>1, FS_Subset
<1> HIDE DEF all, E, R
<1>6. Cardinality(E \cup R) = Cardinality(E) + Cardinality(R)
  BY <1>1, <1>2, FS_Union, FS_EmptySet, FS_CardinalityType
<1>7. Cardinality(E \cup R) <= Cardinality(all)
  BY <1>3, <1>5, FS_Subset
<1>8. EventCount(r, A) + Exclusive(r, b) <= Cardinality(all)
  BY <1>1, <1>6, <1>7
<1> QED BY <1>5, <1>8 DEF all

\* Sums over the repositories of an organization, of PRs that are counted in each.
LEMMA OfOwner ==
  ASSUME DatabaseOK(db), NEW o
  PROVE  /\ IsFiniteSet(OkOf(o)) /\ OkOf(o) \in SUBSET db.ok
         /\ IsFiniteSet(NamesOf(o)) /\ NamesOf(o) \subseteq Repositories
         /\ \A r \in NamesOf(o) : r[1] = o
         /\ \A P : IsFiniteSet(P) =>
              SumFunction([r \in NamesOf(o) |-> Cardinality({pr \in P : pr[1] = r})])
                = Cardinality({pr \in P : pr[1] \in NamesOf(o)})
<1>1. IsFiniteSet(OkOf(o)) /\ OkOf(o) \in SUBSET db.ok
  <2>1. OkOf(o) \in SUBSET db.ok
    BY DEF OkOf
  <2> QED BY <2>1, Databased, FS_Subset
<1>2. IsFiniteSet(NamesOf(o))
  <2> DEFINE name == [row \in OkOf(o) |-> row[1]]
  <2>1. NamesOf(o) = {name[row] : row \in OkOf(o)}
    BY DEF NamesOf
  <2> HIDE DEF name
  <2> QED BY <1>1, <2>1, FiniteRange
<1>3. NamesOf(o) \subseteq Repositories /\ \A r \in NamesOf(o) : r[1] = o
  BY Databased DEF NamesOf, OkOf
<1>4. ASSUME NEW P, IsFiniteSet(P)
      PROVE  SumFunction([r \in NamesOf(o) |-> Cardinality({pr \in P : pr[1] = r})])
               = Cardinality({pr \in P : pr[1] \in NamesOf(o)})
  <2> DEFINE S == {pr \in P : pr[1] \in NamesOf(o)}
             K == NamesOf(o)
             h == [r \in K |-> Cardinality({pr \in P : pr[1] = r})]
             key == [pr \in S |-> pr[1]]
  <2>1. IsFiniteSet(S)
    BY <1>4, FS_Subset
  <2>2. \A pr \in S : key[pr] \in K
    OBVIOUS
  <2>3. ASSUME NEW k \in K PROVE h[k] = Cardinality({pr \in S : key[pr] = k})
    <3>1. {pr \in S : key[pr] = k} = {pr \in P : pr[1] = k}
      OBVIOUS
    <3> QED BY <3>1
  <2>4. DOMAIN h = K /\ IsFiniteSet(K)
    BY <1>2
  <2> HIDE DEF S, K, h, key
  <2>5. SumFunctionOnSet(h, K) = Cardinality(S)
    BY <2>1, <2>2, <2>3, <2>4, CountGroups
  <2>6. SumFunction(h) = Cardinality(S)
    BY <2>4, <2>5, SumOfFunction
  <2> QED BY <2>6 DEF S, h, K
<1> QED BY <1>1, <1>2, <1>3, <1>4

LEMMA SumOfImages ==
  ASSUME NEW S, IsFiniteSet(S), NEW key, \A x, y \in S : key[x] = key[y] => x = y,
         NEW f, \A x \in S : f[x] \in Int, NEW h, \A x \in S : h[key[x]] = f[x]
  PROVE  SumFunctionOnSet(h, {key[x] : x \in S}) = SumFunctionOnSet(f, S)
<1> DEFINE K == {key[x] : x \in S}
<1>1. IsFiniteSet(K)
  BY FiniteRange
<1>2. ASSUME NEW k \in K PROVE h[k] = SumFunctionOnSet(f, {x \in S : key[x] = k})
  <2>1. PICK x \in S : key[x] = k
    OBVIOUS
  <2>2. {y \in S : key[y] = k} = {x}
    BY <2>1
  <2>3. SumFunctionOnSet(f, {x}) = f[x]
    BY SumSingle
  <2> QED BY <2>1, <2>2, <2>3
<1>3. \A x \in S : key[x] \in K
  OBVIOUS
<1> HIDE DEF K
<1>4. SumFunctionOnSet(h, K) = SumFunctionOnSet(f, S)
  BY <1>1, <1>2, <1>3, SumGroups
<1> QED BY <1>4 DEF K

\* What is the same in every row of a name adds up to no less over the rows, and to the
\* same once they are merged.
LEMMA SumsOverRows ==
  ASSUME DatabaseOK(db), NEW o, NEW f, \A r \in NamesOf(o) : f[r] \in Nat,
         NEW h, DOMAIN h = OkOf(o), \A row \in OkOf(o) : h[row] = f[row[1]]
  PROVE  /\ SumFunctionOnSet(f, NamesOf(o)) <= SumFunction(h)
         /\ Merged(OkOf(o)) => SumFunctionOnSet(f, NamesOf(o)) = SumFunction(h)
<1> DEFINE S == OkOf(o)
           K == NamesOf(o)
           name == [row \in S |-> row[1]]
           first == [r \in K |-> CHOOSE row \in S : row[1] = r]
           T == {first[r] : r \in K}
<1>1. IsFiniteSet(S) /\ IsFiniteSet(K) /\ K = {name[row] : row \in S}
  BY OfOwner DEF NamesOf
<1>2. \A row \in S : h[row] \in Nat /\ name[row] = row[1] /\ row[1] \in K
  BY DEF NamesOf
<1>3. \A r \in K : first[r] \in S /\ first[r][1] = r
  BY DEF NamesOf
<1>4. T \in SUBSET S
  BY <1>3
<1>5. SumFunction(h) = SumFunctionOnSet(h, S)
  BY SumOfFunction
<1> HIDE DEF name, first
<1>6. SumFunctionOnSet(h, T) = SumFunctionOnSet(f, K)
  <2>1. \A x, y \in K : first[x] = first[y] => x = y
    BY <1>3
  <2>2. \A r \in K : f[r] \in Int
    OBVIOUS
  <2>3. \A r \in K : h[first[r]] = f[r]
    BY <1>3
  <2> HIDE DEF K
  <2>4. SumFunctionOnSet(h, {first[r] : r \in K}) = SumFunctionOnSet(f, K)
    BY <1>1, <2>1, <2>2, <2>3, SumOfImages
  <2> QED BY <2>4
<1>7. SumFunctionOnSet(h, T) <= SumFunctionOnSet(h, S)
  <2>1. \A row \in S : h[row] \in Nat
    BY <1>2
  <2> HIDE DEF S, T
  <2> QED BY <1>1, <1>4, <2>1, SumSubset
<1>8. ASSUME Merged(S) PROVE SumFunctionOnSet(f, K) = SumFunctionOnSet(h, S)
  <2>1. \A x, y \in S : name[x] = name[y] => x = y
    BY <1>2, <1>8 DEF Merged
  <2>2. \A row \in S : h[row] \in Int
    BY <1>2
  <2>3. \A row \in S : f[name[row]] = h[row]
    BY <1>2
  <2> HIDE DEF S, K
  <2>4. SumFunctionOnSet(f, {name[row] : row \in S}) = SumFunctionOnSet(h, S)
    BY <1>1, <2>1, <2>2, <2>3, SumOfImages
  <2> QED BY <1>1, <2>4
<1> QED BY <1>5, <1>6, <1>7, <1>8

\* PRs with events are counted once in the repositories of an organization.
LEMMA EventsOfOwner ==
  ASSUME DatabaseOK(db), NEW o
  PROVE  /\ SumFunction([r \in NamesOf(o) |-> EventCount(r, Accounts)]) \in Nat
         /\ OrgPRs(o, Accounts) \in Nat
         /\ SumFunction([r \in NamesOf(o) |-> EventCount(r, Accounts)]) <= OrgPRs(o, Accounts)
         /\ (\A pr \in EventPRs(Accounts) : Owned(pr) = o => pr[1] \in NamesOf(o)) =>
              SumFunction([r \in NamesOf(o) |-> EventCount(r, Accounts)]) = OrgPRs(o, Accounts)
<1> DEFINE P == EventPRs(Accounts)
           S == {pr \in P : pr[1] \in NamesOf(o)}
           U == {pr \in P : Owned(pr) = o}
<1>1. SumFunction([r \in NamesOf(o) |-> EventCount(r, Accounts)]) = Cardinality(S)
  <2>1. [r \in NamesOf(o) |-> EventCount(r, Accounts)]
          = [r \in NamesOf(o) |-> Cardinality({pr \in P : pr[1] = r})]
    BY DEF EventCount, PRsIn
  <2>2. IsFiniteSet(P)
    BY Events
  <2> HIDE DEF P
  <2>3. SumFunction([r \in NamesOf(o) |-> Cardinality({pr \in P : pr[1] = r})]) = Cardinality(S)
    BY <2>2, OfOwner
  <2> QED BY <2>1, <2>3
<1>2. OrgPRs(o, Accounts) = Cardinality(U)
  BY DEF OrgPRs
<1>3. S \subseteq U
  BY OfOwner DEF Owned
<1>4. (\A pr \in P : Owned(pr) = o => pr[1] \in NamesOf(o)) => S = U
  BY <1>3
<1>5. IsFiniteSet(S) /\ IsFiniteSet(U)
  BY Events, FS_Subset
<1>6. Cardinality(S) <= Cardinality(U) /\ Cardinality(S) \in Nat /\ Cardinality(U) \in Nat
  <2> HIDE DEF S, U
  <2> QED BY <1>3, <1>5, FS_Subset, FS_CardinalityType
<1>7. (\A pr \in P : Owned(pr) = o => pr[1] \in NamesOf(o)) => Cardinality(S) = Cardinality(U)
  BY <1>4
<1> HIDE DEF S, U
<1> QED BY <1>1, <1>2, <1>6, <1>7

\* Joining the listed bots drops PRs, and none if all that are active are listed.
LEMMA ListedCount ==
  ASSUME DatabaseOK(db), NEW o, NEW A \in SUBSET Accounts
  PROVE  /\ OrgPRs(o, A) \in Nat /\ OrgPRs(o, A) <= OrgPRs(o, Accounts)
         /\ ActiveOn({pr \in PullRequests : Owned(pr) = o}) \subseteq A =>
              OrgPRs(o, A) = OrgPRs(o, Accounts)
<1> DEFINE S == {pr \in EventPRs(A) : Owned(pr) = o}
           T == {pr \in EventPRs(Accounts) : Owned(pr) = o}
<1>1. S \in SUBSET T /\ T \in SUBSET EventPRs(Accounts)
  BY Events
<1>2. IsFiniteSet(T)
  BY <1>1, Events, FS_Subset
<1>3. ASSUME ActiveOn({pr \in PullRequests : Owned(pr) = o}) \subseteq A PROVE T \subseteq S
  <2> SUFFICES ASSUME NEW pr \in T PROVE pr \in EventPRs(A)
    OBVIOUS
  <2>1. PICK e \in db.events : e[1] = pr /\ e[2] \in Accounts
    BY DEF EventPRs
  <2>2. pr \in PullRequests /\ Owned(pr) = o
    BY Events
  <2>3. e[2] \in A
    BY <1>3, <2>1, <2>2 DEF ActiveOn
  <2> QED BY <2>1, <2>3 DEF EventPRs
<1>4. OrgPRs(o, A) = Cardinality(S) /\ OrgPRs(o, Accounts) = Cardinality(T)
  BY DEF OrgPRs
<1>5. ActiveOn({pr \in PullRequests : Owned(pr) = o}) \subseteq A => S = T
  BY <1>1, <1>3
<1> HIDE DEF S, T
<1>6. IsFiniteSet(S) /\ Cardinality(S) <= Cardinality(T) /\ Cardinality(S) \in Nat
  BY <1>1, <1>2, FS_Subset, FS_CardinalityType
<1> QED BY <1>4, <1>5, <1>6

LEMMA ListedExclusives ==
  ASSUME DatabaseOK(db), NEW o, ActiveOn({pr \in PullRequests : Owned(pr) = o}) \subseteq db.listed,
         NEW r \in NamesOf(o)
  PROVE  ExclusiveMax(r, db.listed) = ExclusiveMax(r, Accounts)
<1>1. ASSUME NEW b \in Accounts, b \notin db.listed PROVE Exclusive(r, b) = 0
  <2>1. ASSUME NEW x \in ReactedIn(r, b) PROVE FALSE
    <3>1. x \in db.reactions /\ x[2] = b /\ x[1][1] = r
      BY <2>1 DEF ReactedIn, Reacted
    <3>2. x[1] \in PullRequests /\ Owned(x[1]) = o
      BY <3>1, Databased, OfOwner DEF Owned
    <3> QED BY <1>1, <3>1, <3>2 DEF ActiveOn
  <2>2. ReactedIn(r, b) = {}
    BY <2>1
  <2>3. Exclusive(r, b) = Cardinality(ReactedIn(r, b))
    BY DEF Exclusive, ReactedIn
  <2> QED BY <2>2, <2>3, FS_EmptySet
<1>2. {Exclusive(r, b) : b \in db.listed} \cup {0} = {Exclusive(r, b) : b \in Accounts} \cup {0}
  BY <1>1, Databased
<1> QED BY <1>2 DEF ExclusiveMax

LEMMA OrganizationsAgree ==
  ASSUME DatabaseOK(db), NEW o
  PROVE  LET listed(sort) == OrgItem([products |-> {}, sort |-> sort], o).total_prs
             of_owner == {pr \in PullRequests : Owned(pr) = o}
         IN
         /\ OrgSummaryPRs(o) <= SumFunction(OrgRepos(o))
         /\ Merged(OkOf(o)) => OrgSummaryPRs(o) = SumFunction(OrgRepos(o))
         /\ listed("stars") <= listed("prs")
         /\ ActiveOn(of_owner) \subseteq db.listed =>
              /\ OrgSummaryPRs(o) <= listed("prs") /\ listed("stars") = listed("prs")
              /\ (\A pr \in EventPRs(Accounts) : Owned(pr) = o => pr[1] \in NamesOf(o))
                   => OrgSummaryPRs(o) = listed("prs")
<1> DEFINE K == NamesOf(o)
           f == [r \in K |-> EventCount(r, Accounts)]
           g == [r \in K |-> ExclusiveMax(r, Accounts)]
           q == [r \in K |-> ExclusiveMax(r, db.listed)]
           h == [r \in K |-> EventCount(r, Accounts) + ExclusiveMax(r, Accounts)]
           listed(sort) == OrgItem([products |-> {}, sort |-> sort], o).total_prs
           all == ActiveOn({pr \in PullRequests : Owned(pr) = o}) \subseteq db.listed
           fetched == \A pr \in EventPRs(Accounts) : Owned(pr) = o => pr[1] \in K
<1>1. IsFiniteSet(K) /\ DOMAIN f = K /\ DOMAIN g = K /\ DOMAIN h = K /\ DOMAIN q = K
  BY OfOwner
<1>2. \A r \in K : f[r] \in Nat /\ g[r] \in Nat /\ q[r] \in Nat /\ h[r] = f[r] + g[r]
  BY Events, MostExclusive, Databased
<1>3. OrgSummaryPRs(o) = SumFunction(f) + SumFunction(g)
  BY DEF OrgSummaryPRs
<1>4. /\ listed("prs") = OrgPRs(o, Accounts) + SumFunction(q)
      /\ listed("stars") = OrgPRs(o, db.listed) + SumFunction(q)
  BY DEF OrgItem, Tallied, Joined
<1>5. /\ SumFunction(f) \in Nat /\ OrgPRs(o, Accounts) \in Nat
      /\ SumFunction(f) <= OrgPRs(o, Accounts)
      /\ fetched => SumFunction(f) = OrgPRs(o, Accounts)
  BY EventsOfOwner
<1>6. /\ OrgPRs(o, db.listed) \in Nat /\ OrgPRs(o, db.listed) <= OrgPRs(o, Accounts)
      /\ all => OrgPRs(o, db.listed) = OrgPRs(o, Accounts)
  BY Databased, ListedCount
<1>7. all => q = g
  <2>1. all => \A r \in K : ExclusiveMax(r, db.listed) = ExclusiveMax(r, Accounts)
    BY ListedExclusives
  <2> QED BY <2>1
<1>8. /\ SumFunctionOnSet(h, K) <= SumFunction(OrgRepos(o))
      /\ Merged(OkOf(o)) => SumFunctionOnSet(h, K) = SumFunction(OrgRepos(o))
  <2>1. \A r \in NamesOf(o) : h[r] \in Nat
    BY <1>2
  <2>2. DOMAIN OrgRepos(o) = OkOf(o)
    BY DEF OrgRepos
  <2>3. \A row \in OkOf(o) : OrgRepos(o)[row] = h[row[1]]
    BY DEF OrgRepos, NamesOf
  <2> HIDE DEF h
  <2> QED BY <2>1, <2>2, <2>3, SumsOverRows
<1> HIDE DEF K, f, g, h, q, listed, all, fetched
<1>9. SumFunctionOnSet(h, K) = SumFunction(f) + SumFunction(g)
  <2>1. \A r \in K : f[r] \in Int /\ g[r] \in Int /\ h[r] = f[r] + g[r]
    BY <1>2
  <2>2. SumFunctionOnSet(h, K) = SumFunctionOnSet(f, K) + SumFunctionOnSet(g, K)
    BY <1>1, <2>1, SumPlus
  <2> QED BY <1>1, <2>2, SumOfFunction
<1>10. SumFunction(g) \in Nat /\ SumFunction(q) \in Nat
  <2>1. SumFunctionOnSet(g, K) \in Nat /\ SumFunctionOnSet(q, K) \in Nat
    BY <1>1, <1>2, SumNat
  <2> QED BY <1>1, <2>1, SumOfFunction
<1>11. /\ OrgSummaryPRs(o) <= SumFunction(OrgRepos(o))
       /\ Merged(OkOf(o)) => OrgSummaryPRs(o) = SumFunction(OrgRepos(o))
  BY <1>3, <1>8, <1>9
<1>12. listed("stars") <= listed("prs")
  BY <1>4, <1>5, <1>6, <1>10
<1>13. all => /\ OrgSummaryPRs(o) <= listed("prs") /\ listed("stars") = listed("prs")
              /\ fetched => OrgSummaryPRs(o) = listed("prs")
  BY <1>3, <1>4, <1>5, <1>6, <1>7, <1>10
<1> QED BY <1>11, <1>12, <1>13 DEF listed, all, fetched, K

LEMMA RepositoriesAgree ==
  ASSUME DatabaseOK(db), NEW row \in db.ok
  PROVE  LET r == row[1] IN
         /\ RepoDetailPRs(r) <= OrgRepos(r[1])[row]
         /\ \A f \in RepoFilters :
              /\ RepoItemPRs(f, r) <= RepoDetailPRs(r)
              /\ f.products = {} /\ f.sort = "prs" => RepoItemPRs(f, r) = RepoDetailPRs(r)
              /\ ActiveOn({pr \in PullRequests : pr[1] = r}) \subseteq db.listed =>
                   (f.products \in {{}, ProductIds} => RepoItemPRs(f, r) = RepoDetailPRs(r))
<1> DEFINE r == row[1]
           P == PRsIn(r, Accounts)
<1>1. OrgRepos(r[1])[row] = EventCount(r, Accounts) + ExclusiveMax(r, Accounts)
  BY DEF OrgRepos, OkOf
<1>2. EventCount(r, Accounts) \in Nat /\ ExclusiveMax(r, Accounts) \in Nat
  BY Events, MostExclusive
<1>3. BotsOf(ProductIds) = db.listed
  BY ListingsAssumption, Databased DEF BotsOf, ProductIds, Range
<1>4. RepoDetailPRs(r) = Cardinality(P) /\ IsFiniteSet(P)
  BY Events DEF RepoDetailPRs, EventCount
<1>5. ASSUME NEW f \in RepoFilters
      PROVE  /\ RepoItemPRs(f, r) <= RepoDetailPRs(r)
             /\ f.products = {} /\ f.sort = "prs" => RepoItemPRs(f, r) = RepoDetailPRs(r)
             /\ ActiveOn({pr \in PullRequests : pr[1] = r}) \subseteq db.listed =>
                  (f.products \in {{}, ProductIds} => RepoItemPRs(f, r) = RepoDetailPRs(r))
  <2> DEFINE A == Tallied(f)
             Q == PRsIn(r, A)
  <2>1. A \in SUBSET Accounts
    BY Databased DEF Tallied, Joined, BotsOf
  <2>2. Q \in SUBSET P
    BY <2>1, Events DEF PRsIn
  <2>3. RepoItemPRs(f, r) = Cardinality(Q)
    BY DEF RepoItemPRs, EventCount
  <2>4. f.products = {} /\ f.sort = "prs" => A = Accounts
    BY DEF Tallied
  <2>5. f.products \in {{}, ProductIds} => A = Accounts \/ A = db.listed
    BY <1>3 DEF Tallied, Joined
  <2>6. ASSUME ActiveOn({pr \in PullRequests : pr[1] = r}) \subseteq db.listed, A = db.listed
        PROVE  P \subseteq Q
    <3> SUFFICES ASSUME NEW pr \in P PROVE pr \in EventPRs(A)
      BY DEF PRsIn
    <3>1. pr \in EventPRs(Accounts) /\ pr[1] = r /\ pr \in PullRequests
      BY Events DEF PRsIn
    <3>2. PICK e \in db.events : e[1] = pr
      BY <3>1 DEF EventPRs
    <3>3. e[2] \in db.listed
      BY <2>6, <3>1, <3>2 DEF ActiveOn
    <3> QED BY <2>6, <3>2, <3>3 DEF EventPRs
  <2>7. A = Accounts => Q = P
    OBVIOUS
  <2> HIDE DEF A, P, Q
  <2>8. Cardinality(Q) <= Cardinality(P)
    BY <1>4, <2>2, FS_Subset
  <2>9. f.products = {} /\ f.sort = "prs" => Q = P
    BY <2>4, <2>7
  <2>10. ActiveOn({pr \in PullRequests : pr[1] = r}) \subseteq db.listed =>
           (f.products \in {{}, ProductIds} => Q = P)
    BY <2>2, <2>5, <2>6, <2>7
  <2> QED BY <1>4, <2>3, <2>8, <2>9, <2>10
<1> QED BY <1>1, <1>2, <1>5 DEF RepoDetailPRs

\* What is counted in each repository is counted in the organization.
LEMMA AtMostTouched ==
  ASSUME DatabaseOK(db), NEW o, NEW A, IsFiniteSet(Touched(A)),
         NEW f, DOMAIN f = NamesOf(o),
         \A r \in NamesOf(o) :
           f[r] \in Int /\ f[r] <= Cardinality({pr \in Touched(A) : pr[1] = r})
  PROVE  SumFunction(f) <= Cardinality({pr \in Touched(A) : pr[1] \in NamesOf(o)})
<1> DEFINE g == [r \in NamesOf(o) |-> Cardinality({pr \in Touched(A) : pr[1] = r})]
<1>1. SumFunction(g) = Cardinality({pr \in Touched(A) : pr[1] \in NamesOf(o)})
  BY OfOwner
<1>2. DOMAIN g = NamesOf(o) /\ IsFiniteSet(NamesOf(o))
  BY OfOwner
<1>3. \A r \in NamesOf(o) : f[r] \in Int /\ g[r] \in Int /\ f[r] <= g[r]
  <2> SUFFICES ASSUME NEW r \in NamesOf(o) PROVE g[r] \in Int /\ f[r] <= g[r]
    OBVIOUS
  <2>1. IsFiniteSet({pr \in Touched(A) : pr[1] = r})
    BY FS_Subset
  <2>2. Cardinality({pr \in Touched(A) : pr[1] = r}) \in Int
    BY <2>1, FS_CardinalityType
  <2> QED BY <2>2
<1> HIDE DEF g
<1>4. SumFunctionOnSet(f, NamesOf(o)) <= SumFunctionOnSet(g, NamesOf(o))
  BY <1>2, <1>3, SumLess
<1> QED BY <1>1, <1>2, <1>4, SumOfFunction

LEMMA TouchedFinite ==
  ASSUME DatabaseOK(db), NEW A
  PROVE  IsFiniteSet(Touched(A))
<1> DEFINE own == {y \in db.reactions : y[2] \in A}
           f == [x \in own |-> x[1]]
           T == {x[1] : x \in own}
<1>1. IsFiniteSet(own)
  BY Databased, FS_Subset
<1>2. T = {f[x] : x \in own}
  OBVIOUS
<1>3. IsFiniteSet(T)
  <2> HIDE DEF own, f, T
  <2> QED BY <1>1, <1>2, FiniteRange
<1> QED BY <1>3, Events, FS_Union DEF Touched

LEMMA ReactionsAddNoPR ==
  ASSUME DatabaseOK(db), db.seen = db.events, NEW o
  PROVE  /\ \A row \in OkOf(o) :
              OrgRepos(o)[row] <= Cardinality({pr \in Touched(Accounts) : pr[1] = row[1]})
         /\ OrgSummaryPRs(o) <= Cardinality({pr \in Touched(Accounts) : pr[1] \in NamesOf(o)})
         /\ \A b \in Accounts : BotsOf({Product[b]}) = {b} =>
              OrgProductPRs(o, Product[b]) <= Cardinality({pr \in Touched({b}) : pr[1] \in NamesOf(o)})
<1> DEFINE K == NamesOf(o)
           f == [r \in K |-> EventCount(r, Accounts)]
           g == [r \in K |-> ExclusiveMax(r, Accounts)]
           h == [r \in K |-> EventCount(r, Accounts) + ExclusiveMax(r, Accounts)]
<1>1. ASSUME NEW r \in NamesOf(o)
      PROVE  h[r] \in Int /\ h[r] <= Cardinality({pr \in Touched(Accounts) : pr[1] = r})
  <2>1. h[r] = EventCount(r, Accounts) + ExclusiveMax(r, Accounts)
    OBVIOUS
  <2>2. EventCount(r, Accounts) \in Nat /\ ExclusiveMax(r, Accounts) \in Nat
    BY Events, MostExclusive
  <2> DEFINE n == Cardinality({pr \in Touched(Accounts) : pr[1] = r})
  <2>3. EventCount(r, Accounts) <= n
    <3> DEFINE S == {pr \in Touched(Accounts) : pr[1] = r}
    <3>1. IsFiniteSet(S)
      BY TouchedFinite, FS_Subset
    <3>2. PRsIn(r, Accounts) \in SUBSET S
      BY DEF PRsIn, Touched
    <3> HIDE DEF S
    <3>3. Cardinality(PRsIn(r, Accounts)) <= Cardinality(S)
      BY <3>1, <3>2, FS_Subset
    <3> QED BY <3>3 DEF EventCount, S
  <2>4. CASE ExclusiveMax(r, Accounts) = 0
    BY <2>1, <2>2, <2>3, <2>4
  <2>5. CASE ExclusiveMax(r, Accounts) # 0
    <3>1. PICK b \in Accounts : ExclusiveMax(r, Accounts) = Exclusive(r, b)
      BY <2>5, MostExclusive
    <3>2. EventCount(r, Accounts) + Exclusive(r, b) <= n
      BY NoneTwice
    <3> HIDE DEF n, h
    <3> QED BY <2>1, <2>2, <3>1, <3>2 DEF n
  <2> QED BY <2>4, <2>5
<1>2. OrgSummaryPRs(o) = SumFunction(h)
  <2>1. IsFiniteSet(K) /\ DOMAIN f = K /\ DOMAIN g = K /\ DOMAIN h = K
    BY OfOwner
  <2>2. \A r \in K : f[r] \in Int /\ g[r] \in Int /\ h[r] = f[r] + g[r]
    BY Events, MostExclusive
  <2>3. OrgSummaryPRs(o) = SumFunction(f) + SumFunction(g)
    BY DEF OrgSummaryPRs
  <2> HIDE DEF K, f, g, h
  <2>4. SumFunctionOnSet(h, K) = SumFunctionOnSet(f, K) + SumFunctionOnSet(g, K)
    BY <2>1, <2>2, SumPlus
  <2> QED BY <2>1, <2>3, <2>4, SumOfFunction
<1>3. SumFunction(h) <= Cardinality({pr \in Touched(Accounts) : pr[1] \in NamesOf(o)})
  <2>1. DOMAIN h = NamesOf(o) /\ IsFiniteSet(Touched(Accounts))
    BY TouchedFinite
  <2> HIDE DEF h
  <2> QED BY <1>1, <2>1, AtMostTouched
<1>4. ASSUME NEW b \in Accounts, BotsOf({Product[b]}) = {b}
      PROVE  OrgProductPRs(o, Product[b]) <= Cardinality({pr \in Touched({b}) : pr[1] \in NamesOf(o)})
  <2> DEFINE own(r) == [c \in {b} |-> Exclusive(r, c)]
             t == [r \in NamesOf(o) |-> EventCount(r, {b}) + SumFunction(own(r))]
  <2>1. OrgProductPRs(o, Product[b]) = SumFunction(t)
    BY <1>4 DEF OrgProductPRs
  <2>2. ASSUME NEW r \in NamesOf(o)
        PROVE  t[r] \in Int /\ t[r] <= Cardinality({pr \in Touched({b}) : pr[1] = r})
    <3>1. DOMAIN own(r) = {b} /\ own(r)[b] = Exclusive(r, b) /\ Exclusive(r, b) \in Nat
      BY Exclusives
    <3>2. SumFunction(own(r)) = Exclusive(r, b)
      <4> HIDE DEF own
      <4>1. SumFunctionOnSet(own(r), {b}) = own(r)[b]
        BY <3>1, SumSingle
      <4> QED BY <3>1, <4>1, SumOfFunction
    <3>3. EventCount(r, {b}) \in Nat
      BY Events
    <3>4. EventCount(r, {b}) + Exclusive(r, b) <= Cardinality({pr \in Touched({b}) : pr[1] = r})
      <4>1. b \in {b} /\ {b} \in SUBSET Accounts
        OBVIOUS
      <4> QED BY <4>1, NoneTwice
    <3> QED BY <3>1, <3>2, <3>3, <3>4
  <2>3. DOMAIN t = NamesOf(o) /\ IsFiniteSet(Touched({b}))
    BY TouchedFinite
  <2> HIDE DEF t
  <2>4. SumFunction(t) <= Cardinality({pr \in Touched({b}) : pr[1] \in NamesOf(o)})
    BY <2>2, <2>3, AtMostTouched
  <2> QED BY <2>1, <2>4
<1>5. ASSUME NEW row \in OkOf(o)
      PROVE  OrgRepos(o)[row] <= Cardinality({pr \in Touched(Accounts) : pr[1] = row[1]})
  <2>1. row[1] \in NamesOf(o)
    BY DEF NamesOf
  <2>2. OrgRepos(o)[row] = h[row[1]]
    BY <2>1 DEF OrgRepos
  <2> HIDE DEF h
  <2> QED BY <1>1, <2>1, <2>2
<1> QED BY <1>2, <1>3, <1>4, <1>5

\* For any events, reactions and repositories that are fetched: the totals of
\* getOrgSummary, getOrgList, getOrgRepos, getOrgProducts, getRepoList and getRepoDetail
\* (app/src/lib/clickhouse.ts) agree, and right after a refresh count no PR twice.
THEOREM TotalsHold == db \in Databases => TotalsAgree
<1>1. SUFFICES ASSUME db \in Databases PROVE TotalsAgree
  OBVIOUS
<1>2. DatabaseOK(db)
  BY <1>1, DatabasesAssumption
<1>3. \A o \in Owners :
        LET listed(sort) == OrgItem([products |-> {}, sort |-> sort], o).total_prs
            of_owner == {pr \in PullRequests : Owned(pr) = o}
        IN
        /\ OrgSummaryPRs(o) <= SumFunction(OrgRepos(o))
        /\ Merged(OkOf(o)) => OrgSummaryPRs(o) = SumFunction(OrgRepos(o))
        /\ listed("stars") <= listed("prs")
        /\ ActiveOn(of_owner) \subseteq db.listed =>
             /\ OrgSummaryPRs(o) <= listed("prs") /\ listed("stars") = listed("prs")
             /\ (\A pr \in EventPRs(Accounts) : Owned(pr) = o => pr[1] \in NamesOf(o))
                  => OrgSummaryPRs(o) = listed("prs")
  BY <1>2, OrganizationsAgree
<1>4. \A row \in db.ok :
        LET r == row[1] IN
        /\ RepoDetailPRs(r) <= OrgRepos(r[1])[row]
        /\ \A f \in RepoFilters :
             /\ RepoItemPRs(f, r) <= RepoDetailPRs(r)
             /\ f.products = {} /\ f.sort = "prs" => RepoItemPRs(f, r) = RepoDetailPRs(r)
             /\ ActiveOn({pr \in PullRequests : pr[1] = r}) \subseteq db.listed =>
                  (f.products \in {{}, ProductIds} => RepoItemPRs(f, r) = RepoDetailPRs(r))
  BY <1>2, RepositoriesAgree
<1>5. ASSUME db.seen = db.events, NEW o \in Owners
      PROVE  LET active == EventPRs(Accounts) \cup {r[1] : r \in db.reactions} IN
             /\ OrgSummaryPRs(o) <= Cardinality({pr \in active : pr[1] \in NamesOf(o)})
             /\ \A row \in OkOf(o) :
                  OrgRepos(o)[row] <= Cardinality({pr \in active : pr[1] = row[1]})
             /\ \A b \in Accounts : BotsOf({Product[b]}) = {b} =>
                  OrgProductPRs(o, Product[b])
                    <= Cardinality({x[1] : x \in {y \in db.events \cup db.reactions :
                                                   y[2] = b /\ y[1][1] \in NamesOf(o)}})
  <2>1. Touched(Accounts) = EventPRs(Accounts) \cup {r[1] : r \in db.reactions}
    BY <1>2, Databased DEF Touched
  <2>2. ASSUME NEW b
        PROVE  {pr \in Touched({b}) : pr[1] \in NamesOf(o)}
                 = {x[1] : x \in {y \in db.events \cup db.reactions :
                                   y[2] = b /\ y[1][1] \in NamesOf(o)}}
    BY DEF Touched, EventPRs
  <2>3. /\ OrgSummaryPRs(o) <= Cardinality({pr \in Touched(Accounts) : pr[1] \in NamesOf(o)})
        /\ \A row \in OkOf(o) :
             OrgRepos(o)[row] <= Cardinality({pr \in Touched(Accounts) : pr[1] = row[1]})
        /\ \A b \in Accounts : BotsOf({Product[b]}) = {b} =>
             OrgProductPRs(o, Product[b]) <= Cardinality({pr \in Touched({b}) : pr[1] \in NamesOf(o)})
    BY <1>2, <1>5, ReactionsAddNoPR
  <2> QED BY <2>1, <2>2, <2>3
<1> QED BY <1>3, <1>4, <1>5 DEF TotalsAgree

-----------------------------------------------------------------------------
(* The orders of the lists *)

\* Keys that say of every two rows which is first, and contradict themselves nowhere.
Complete(key) ==
  /\ IsFiniteSet(DOMAIN key)
  /\ \A x \in DOMAIN key : ~Precedes(key[x], key[x])
  /\ \A x, y \in DOMAIN key : x # y => Precedes(key[x], key[y]) \/ Precedes(key[y], key[x])
  /\ \A x, y, z \in DOMAIN key :
       Precedes(key[x], key[y]) /\ Precedes(key[y], key[z]) => Precedes(key[x], key[z])

\* Columns of numbers are such keys once no two rows have the same.
LEMMA ColumnsComplete ==
  ASSUME NEW key, IsFiniteSet(DOMAIN key), NEW k \in Nat,
         \A x \in DOMAIN key : key[x] \in [1 .. k -> Int],
         \A x, y \in DOMAIN key : key[x] = key[y] => x = y
  PROVE  Complete(key)
<1> DEFINE C == [1 .. k -> Int]
<1>1. \A a \in C : ~Precedes(a, a)
  BY DEF Precedes
<1>2. ASSUME NEW a \in C, NEW b \in C, a # b PROVE Precedes(a, b) \/ Precedes(b, a)
  <2> DEFINE Differ == {i \in 1 .. k : a[i] # b[i]}
  <2>1. Differ # {}
    <3>1. ASSUME \A i \in 1 .. k : a[i] = b[i] PROVE FALSE
      <4>1. a = [i \in 1 .. k |-> a[i]] /\ b = [i \in 1 .. k |-> b[i]]
        OBVIOUS
      <4>2. a = b
        BY <3>1, <4>1, Zenon
      <4> QED BY <1>2, <4>2
    <3>2. \E i \in 1 .. k : a[i] # b[i]
      BY <3>1
    <3> QED BY <3>2
  <2>2. PICK m \in Differ : \A i \in Differ : m <= i
    <3>1. Differ \in SUBSET Nat
      OBVIOUS
    <3> HIDE DEF Differ
    <3> QED BY <2>1, <3>1, LeastMember
  <2>3. m \in 1 .. k /\ \A j \in 1 .. (m - 1) : a[j] = b[j]
    BY <2>2
  <2>4. a[m] \in Int /\ b[m] \in Int /\ a[m] # b[m] /\ DOMAIN a = 1 .. k /\ DOMAIN b = 1 .. k
    BY <2>2
  <2>5. a[m] > b[m] \/ b[m] > a[m]
    BY <2>4
  <2> QED BY <2>3, <2>4, <2>5 DEF Precedes
<1>3. ASSUME NEW a \in C, NEW b \in C, NEW c \in C, Precedes(a, b), Precedes(b, c)
      PROVE  Precedes(a, c)
  <2>1. PICK i \in 1 .. k : a[i] > b[i] /\ \A j \in 1 .. (i - 1) : a[j] = b[j]
    BY <1>3 DEF Precedes
  <2>2. PICK m \in 1 .. k : b[m] > c[m] /\ \A j \in 1 .. (m - 1) : b[j] = c[j]
    BY <1>3 DEF Precedes
  <2>3. CASE i <= m
    <3>1. b[i] >= c[i]
      BY <2>2, <2>3
    <3>2. a[i] > c[i]
      BY <2>1, <3>1
    <3>3. \A j \in 1 .. (i - 1) : a[j] = c[j]
      BY <2>1, <2>2, <2>3
    <3> QED BY <3>2, <3>3 DEF Precedes
  <2>4. CASE m < i
    <3>1. a[m] > c[m]
      BY <2>1, <2>2, <2>4
    <3>2. \A j \in 1 .. (m - 1) : a[j] = c[j]
      BY <2>1, <2>2, <2>4
    <3> QED BY <3>1, <3>2 DEF Precedes
  <2> QED BY <2>3, <2>4
<1>4. \A x \in DOMAIN key : key[x] \in C
  OBVIOUS
<1> HIDE DEF C
<1> QED BY <1>1, <1>2, <1>3, <1>4 DEF Complete

\* The rows before a row.
Above(key, x) == {y \in DOMAIN key : Precedes(key[y], key[x])}

LEMMA OrdersAre ==
  ASSUME NEW key, IsFiniteSet(DOMAIN key), NEW s
  PROVE  LET n == Cardinality(DOMAIN key) IN
         /\ n \in Nat
         /\ s \in Orders(key) <=>
              /\ s \in [1 .. n -> DOMAIN key]
              /\ \A i, j \in 1 .. n : s[i] = s[j] => i = j
              /\ \A i, j \in 1 .. n : i < j => ~Precedes(key[s[j]], key[s[i]])
<1> DEFINE n == Cardinality(DOMAIN key)
<1>1. n \in Nat
  BY FS_CardinalityType
<1>2. SetToSeqs(DOMAIN key)
        = {f \in [1 .. n -> DOMAIN key] : \A i, j \in 1 .. n : i # j => f[i] # f[j]}
  BY DEF SetToSeqs
<1>3. s \in SetToSeqs(DOMAIN key) <=>
        s \in [1 .. n -> DOMAIN key] /\ \A i, j \in 1 .. n : s[i] = s[j] => i = j
  BY <1>2
<1>4. s \in [1 .. n -> DOMAIN key] => DOMAIN s = 1 .. n
  OBVIOUS
<1>5. s \in Orders(key) <=>
        /\ s \in SetToSeqs(DOMAIN key)
        /\ \A i, j \in DOMAIN s : i < j => ~Precedes(key[s[j]], key[s[i]])
  BY DEF Orders
<1> HIDE DEF n
<1>6. s \in Orders(key) <=>
        /\ s \in [1 .. n -> DOMAIN key]
        /\ \A i, j \in 1 .. n : s[i] = s[j] => i = j
        /\ \A i, j \in 1 .. n : i < j => ~Precedes(key[s[j]], key[s[i]])
  BY <1>3, <1>4, <1>5
<1> QED BY <1>1, <1>6 DEF n

\* In an order a row comes after as many as precede it.
LEMMA PlacesInOrder ==
  ASSUME NEW key, Complete(key), NEW s \in Orders(key)
  PROVE  LET n == Cardinality(DOMAIN key) IN
         /\ n \in Nat /\ s \in [1 .. n -> DOMAIN key] /\ s \in Seq(DOMAIN key)
         /\ Len(s) = n /\ Range(s) = DOMAIN key
         /\ \A i, j \in 1 .. n : s[i] = s[j] => i = j
         /\ \A i \in 1 .. n : Cardinality(Above(key, s[i])) = i - 1
<1> DEFINE n == Cardinality(DOMAIN key)
           D == DOMAIN key
<1>1. IsFiniteSet(D)
  BY DEF Complete
<1>2. /\ n \in Nat /\ s \in [1 .. n -> D]
      /\ \A i, j \in 1 .. n : s[i] = s[j] => i = j
      /\ \A i, j \in 1 .. n : i < j => ~Precedes(key[s[j]], key[s[i]])
  BY <1>1, OrdersAre
<1>3. s \in Surjection(1 .. n, D)
  <2>1. s \in Injection(1 .. n, D)
    BY <1>2 DEF Injection, IsInjective
  <2>2. IsFiniteSet(1 .. n) /\ Cardinality(1 .. n) = Cardinality(D)
    BY <1>2, FS_Interval
  <2> QED BY <1>1, <2>1, <2>2, FS_Injection
<1> HIDE DEF n
<1>4. DOMAIN s = 1 .. n /\ s \in Seq(D) /\ Len(s) = n
  BY <1>2
<1>5. Range(s) = D
  <2>1. \A y \in D : \E i \in 1 .. n : s[i] = y
    BY <1>3 DEF Surjection
  <2>2. \A i \in 1 .. n : s[i] \in D
    BY <1>2
  <2>3. Range(s) = {s[i] : i \in 1 .. n}
    BY <1>4 DEF Range
  <2> HIDE DEF D
  <2> QED BY <2>1, <2>2, <2>3
<1>6. ASSUME NEW i \in 1 .. n PROVE Cardinality(Above(key, s[i])) = i - 1
  <2>1. \A j \in 1 .. n : s[j] \in D
    BY <1>2
  <2>2. \A j \in 1 .. n : Precedes(key[s[j]], key[s[i]]) <=> j < i
    <3> SUFFICES ASSUME NEW j \in 1 .. n PROVE Precedes(key[s[j]], key[s[i]]) <=> j < i
      OBVIOUS
    <3>1. CASE j = i
      <4>1. ~Precedes(key[s[i]], key[s[i]])
        BY <2>1 DEF Complete
      <4> QED BY <3>1, <4>1
    <3>2. CASE j < i
      <4>1. s[i] # s[j] /\ ~Precedes(key[s[i]], key[s[j]])
        BY <1>2, <3>2
      <4>2. Precedes(key[s[j]], key[s[i]])
        BY <2>1, <4>1 DEF Complete
      <4> QED BY <3>2, <4>2
    <3>3. CASE i < j
      BY <1>2, <3>3
    <3> QED BY <1>2, <3>1, <3>2, <3>3
  <2> DEFINE J == 1 .. (i - 1)
  <2>3. Above(key, s[i]) = {s[j] : j \in J}
    <3>1. ASSUME NEW y \in Above(key, s[i]) PROVE \E j \in J : y = s[j]
      <4>1. y \in D /\ Precedes(key[y], key[s[i]])
        BY <3>1 DEF Above
      <4>2. PICK j \in 1 .. n : s[j] = y
        BY <1>4, <1>5, <4>1 DEF Range
      <4> QED BY <1>2, <2>2, <4>1, <4>2
    <3>2. ASSUME NEW j \in J PROVE s[j] \in Above(key, s[i])
      BY <1>2, <2>1, <2>2 DEF Above
    <3> QED BY <3>1, <3>2
  <2>4. IsFiniteSet(J) /\ Cardinality(J) = i - 1
    BY <1>2, FS_Interval
  <2>5. \A j, l \in J : s[j] = s[l] => j = l
    BY <1>2
  <2> HIDE DEF J
  <2>6. Cardinality({s[j] : j \in J}) = Cardinality(J)
    BY <2>4, <2>5, SameNumber
  <2> QED BY <2>3, <2>4, <2>6
<1> QED BY <1>2, <1>4, <1>5, <1>6 DEF n

\* So that there is one order, and no other.
LEMMA OneOrder ==
  ASSUME NEW key, Complete(key), NEW s \in Orders(key), NEW t \in Orders(key)
  PROVE  s = t
<1> DEFINE n == Cardinality(DOMAIN key)
           D == DOMAIN key
<1>1. /\ n \in Nat /\ s \in [1 .. n -> D]
      /\ \A i \in 1 .. n : Cardinality(Above(key, s[i])) = i - 1
  BY PlacesInOrder
<1>2. /\ t \in [1 .. n -> D] /\ t \in Seq(D) /\ Len(t) = n /\ Range(t) = D
      /\ \A i \in 1 .. n : Cardinality(Above(key, t[i])) = i - 1
  BY PlacesInOrder
<1> HIDE DEF n, D
<1>3. ASSUME NEW i \in 1 .. n PROVE s[i] = t[i]
  <2>1. s[i] \in Range(t) /\ DOMAIN t = 1 .. n
    BY <1>1, <1>2
  <2>2. PICK j \in 1 .. n : t[j] = s[i]
    BY <2>1 DEF Range
  <2>3. i - 1 = j - 1
    BY <1>1, <1>2, <2>2
  <2>4. i = j
    BY <1>1, <2>3
  <2> QED BY <2>2, <2>4
<1> QED BY <1>1, <1>2, <1>3

LEMMA SomeOrder ==
  ASSUME NEW key, Complete(key)
  PROVE  Orders(key) # {}
<1> DEFINE D == DOMAIN key
           n == Cardinality(D)
           place == [x \in D |-> Cardinality(Above(key, x)) + 1]
<1>1. IsFiniteSet(D) /\ n \in Nat
  BY FS_CardinalityType DEF Complete
<1>2. ASSUME NEW x \in D
      PROVE  /\ IsFiniteSet(Above(key, x)) /\ Cardinality(Above(key, x)) \in Nat
             /\ Cardinality(Above(key, x)) < n
  <2>1. Above(key, x) \in SUBSET D /\ x \notin Above(key, x)
    BY DEF Above, Complete
  <2>2. Above(key, x) # D
    BY <2>1
  <2>3. IsFiniteSet(Above(key, x)) /\ Cardinality(Above(key, x)) <= Cardinality(D)
    BY <1>1, <2>1, FS_Subset
  <2>4. Cardinality(Above(key, x)) # Cardinality(D)
    BY <1>1, <2>1, <2>2, FS_Subset
  <2>5. Cardinality(Above(key, x)) \in Nat
    BY <2>3, FS_CardinalityType
  <2> QED BY <1>1, <2>3, <2>4, <2>5
<1>3. ASSUME NEW x \in D, NEW y \in D, Precedes(key[x], key[y]) PROVE place[x] < place[y]
  <2>1. x \in Above(key, y) /\ x \notin Above(key, x)
    BY <1>3 DEF Above, Complete
  <2>2. \A z \in Above(key, x) : z \in D /\ Precedes(key[z], key[x])
    BY DEF Above
  <2>3. \A z \in Above(key, x) : z \in Above(key, y)
    BY <1>3, <2>2 DEF Above, Complete
  <2>4. Above(key, x) \in SUBSET Above(key, y) /\ Above(key, x) # Above(key, y)
    BY <2>1, <2>3
  <2>5. Cardinality(Above(key, x)) < Cardinality(Above(key, y))
    BY <1>2, <2>4, FS_Subset
  <2> QED BY <1>2, <2>5
<1>4. place \in [D -> 1 .. n]
  BY <1>1, <1>2
<1> HIDE DEF place, n
<1>5. ASSUME NEW x \in D, NEW y \in D, place[x] = place[y] PROVE x = y
  <2>1. place[x] \in Int /\ place[y] \in Int
    BY <1>1, <1>4
  <2>2. ~Precedes(key[x], key[y]) /\ ~Precedes(key[y], key[x])
    BY <1>3, <1>5, <2>1
  <2> QED BY <2>2 DEF Complete
<1>6. place \in Surjection(D, 1 .. n)
  <2>1. place \in Injection(D, 1 .. n)
    BY <1>4, <1>5 DEF Injection, IsInjective
  <2>2. IsFiniteSet(1 .. n) /\ Cardinality(1 .. n) = Cardinality(D)
    BY <1>1, FS_Interval DEF n
  <2> QED BY <2>1, <2>2, FS_Injection
<1>7. \A i \in 1 .. n : \E x \in D : place[x] = i
  BY <1>6 DEF Surjection
<1> DEFINE s == [i \in 1 .. n |-> CHOOSE x \in D : place[x] = i]
<1>8. \A i \in 1 .. n : s[i] \in D /\ place[s[i]] = i
  BY <1>7
<1>9. s \in [1 .. n -> D]
  BY <1>8
<1> HIDE DEF s
<1>10. \A i, j \in 1 .. n : s[i] = s[j] => i = j
  BY <1>8
<1>11. ASSUME NEW i \in 1 .. n, NEW j \in 1 .. n, i < j
       PROVE  ~Precedes(key[s[j]], key[s[i]])
  <2>1. s[i] \in D /\ s[j] \in D /\ place[s[i]] = i /\ place[s[j]] = j
    BY <1>8
  <2>2. ~(place[s[j]] < place[s[i]])
    BY <1>1, <1>11, <2>1
  <2> QED BY <1>3, <2>1, <2>2
<1>12. s \in Orders(key)
  BY <1>1, <1>9, <1>10, <1>11, OrdersAre DEF n
<1> QED BY <1>12

LEMMA OrgCounts ==
  ASSUME DatabaseOK(db), NEW o, NEW f
  PROVE  LET rows == {row \in OkOf(o) : f.products # {} => InLanguage(row, f)}
         IN /\ OrgPRs(o, Tallied(f)) \in Nat /\ OrgItem(f, o).total_prs \in Nat
            /\ StarsOf(rows) \in Nat /\ Cardinality(rows) \in Nat
<1> DEFINE accounts == Tallied(f)
           joined == Joined(f)
           rows == {row \in OkOf(o) : f.products # {} => InLanguage(row, f)}
<1>1. accounts \in SUBSET Accounts /\ joined \in SUBSET Accounts
  BY Databased DEF BotsOf, Tallied, Joined
<1>2. OrgPRs(o, accounts) \in Nat
  <2>1. {pr \in EventPRs(accounts) : Owned(pr) = o} \in SUBSET EventPRs(accounts)
    OBVIOUS
  <2>2. IsFiniteSet(EventPRs(accounts))
    BY Events
  <2>3. IsFiniteSet({pr \in EventPRs(accounts) : Owned(pr) = o})
    BY <2>1, <2>2, FS_Subset
  <2> HIDE DEF accounts
  <2> QED BY <2>3, FS_CardinalityType DEF OrgPRs
<1>3. IsFiniteSet(OkOf(o)) /\ OkOf(o) \subseteq Repositories \X Copies /\ IsFiniteSet(NamesOf(o))
  BY Databased, OfOwner
<1>4. SumFunction([r \in NamesOf(o) |-> ExclusiveMax(r, joined)]) \in Nat
  <2> DEFINE h == [r \in NamesOf(o) |-> ExclusiveMax(r, joined)]
  <2> HIDE DEF joined
  <2>1. DOMAIN h = NamesOf(o) /\ \A r \in NamesOf(o) : h[r] \in Nat
    BY <1>1, MostExclusive
  <2> HIDE DEF h
  <2>2. SumFunctionOnSet(h, NamesOf(o)) \in Nat
    BY <1>3, <2>1, SumNat
  <2>3. SumFunction(h) = SumFunctionOnSet(h, NamesOf(o))
    BY <2>1, SumOfFunction
  <2> QED BY <2>2, <2>3 DEF h
<1>5. OrgItem(f, o).total_prs
        = OrgPRs(o, accounts) + SumFunction([r \in NamesOf(o) |-> ExclusiveMax(r, joined)])
  BY DEF OrgItem
<1>6. IsFiniteSet(rows) /\ rows \subseteq Repositories \X Copies
  <2>1. rows \in SUBSET OkOf(o)
    OBVIOUS
  <2> HIDE DEF rows
  <2> QED BY <1>3, <2>1, FS_Subset
<1>7. StarsOf(rows) \in Nat
  <2> DEFINE h == [row \in rows |-> Stars[row]]
  <2> HIDE DEF rows
  <2>1. DOMAIN h = rows /\ \A row \in rows : h[row] \in Nat
    BY <1>6, ListingsAssumption
  <2> HIDE DEF h
  <2>2. SumFunctionOnSet(h, rows) \in Nat
    BY <1>6, <2>1, SumNat
  <2>3. SumFunction(h) = SumFunctionOnSet(h, rows)
    BY <2>1, SumOfFunction
  <2> QED BY <2>2, <2>3 DEF h, StarsOf
<1>8. Cardinality(rows) \in Nat
  <2> HIDE DEF rows
  <2> QED BY <1>6, FS_CardinalityType
<1> HIDE DEF accounts, joined, rows
<1>9. OrgItem(f, o).total_prs \in Nat
  BY <1>2, <1>4, <1>5
<1> QED BY <1>2, <1>7, <1>8, <1>9 DEF accounts, rows

\* The rows of the lists are finitely many, of owners and of repositories.
LEMMA Listed ==
  ASSUME DatabaseOK(db)
  PROVE  /\ \A f \in OrgFilters : IsFiniteSet(OrgRows(f)) /\ OrgRows(f) \subseteq Owners
         /\ \A f \in RepoFilters :
              /\ IsFiniteSet(RepoRows(f)) /\ RepoRows(f) \subseteq Repositories \X (Copies \cup {0})
              /\ f.sort = "prs" => \A row \in RepoRows(f) : row[2] = 0
              /\ f.sort # "prs" => RepoRows(f) \subseteq db.ok
         /\ Owners \subseteq Nat
<1>1. ASSUME NEW f \in OrgFilters
      PROVE  IsFiniteSet(OrgRows(f)) /\ OrgRows(f) \subseteq Owners
  <2>1. f.search = Owners
    BY DEF OrgFilters, Filters
  <2>2. OrgRows(f) \subseteq Owners
    BY <2>1 DEF OrgRows
  <2>3. \A o \in OrgRows(f) : \E r \in db.ok : o = r[1][1]
    BY DEF OrgRows, SomeOk, OkOf
  <2> DEFINE g == [r \in db.ok |-> r[1][1]]
             T == OrgRows(f)
  <2>4. IsFiniteSet(db.ok) /\ \A o \in T : \E r \in db.ok : o = g[r]
    BY <2>3, Databased
  <2> HIDE DEF g, T
  <2>5. IsFiniteSet(T)
    BY <2>4, CountRange
  <2> QED BY <2>2, <2>5 DEF T
<1>2. ASSUME NEW f \in RepoFilters
      PROVE  /\ IsFiniteSet(RepoRows(f)) /\ RepoRows(f) \subseteq Repositories \X (Copies \cup {0})
             /\ f.sort = "prs" => \A row \in RepoRows(f) : row[2] = 0
             /\ f.sort # "prs" => RepoRows(f) \subseteq db.ok
  <2> DEFINE active == {row \in db.ok : /\ row[1] \in f.search /\ InLanguage(row, f)
                                        /\ EventCount(row[1], Tallied(f)) > 0}
             name == [row \in active |-> <<row[1], 0>>]
  <2>1. CASE f.sort = "prs"
    <3>1. RepoRows(f) = {name[row] : row \in active}
      BY <2>1 DEF RepoRows
    <3>2. active \in SUBSET db.ok
      OBVIOUS
    <3>3. IsFiniteSet(active)
      BY <3>2, Databased, FS_Subset
    <3>4. \A row \in active : name[row] = <<row[1], 0>> /\ row[1] \in Repositories
      <4>1. \A row \in active : row[1] \in Repositories
        BY <3>2, Databased
      <4> HIDE DEF active
      <4> QED BY <4>1
    <3> HIDE DEF active, name
    <3>5. IsFiniteSet(RepoRows(f))
      BY <3>1, <3>3, FiniteRange
    <3> QED BY <2>1, <3>1, <3>4, <3>5
  <2>2. CASE f.sort # "prs"
    <3>1. RepoRows(f) \in SUBSET db.ok
      BY <2>2 DEF RepoRows
    <3> QED BY <2>2, <3>1, Databased, FS_Subset
  <2> QED BY <2>1, <2>2
<1>3. Owners \subseteq Nat
  BY ListingsAssumption DEF Owners
<1> QED BY <1>1, <1>2, <1>3

\* Columns with another after them.
LEMMA ColumnAfter ==
  ASSUME NEW s \in Seq(Int), NEW k, Len(s) = k, NEW c \in Int
  PROVE  Append(s, c) \in [1 .. (k + 1) -> Int] /\ Append(s, c)[k + 1] = c
<1> DEFINE t == Append(s, c)
<1>1. t \in Seq(Int) /\ Len(t) = k + 1 /\ t[k + 1] = c
  BY AppendProperties
<1> HIDE DEF t
<1>2. t \in [1 .. Len(t) -> Int]
  BY <1>1
<1>3. t \in [1 .. (k + 1) -> Int]
  BY <1>1, <1>2
<1> QED BY <1>1, <1>3 DEF t

LEMMA ColumnBefore ==
  ASSUME NEW s \in Seq(Int), Len(s) = 1, NEW n \in Seq(Int), Len(n) = 2
  PROVE  s \o n \in [1 .. 3 -> Int] /\ (s \o n)[2] = n[1] /\ (s \o n)[3] = n[2]
<1> DEFINE t == s \o n
<1>1. /\ t \in Seq(Int) /\ Len(t) = Len(s) + Len(n)
      /\ \A i \in 1 .. Len(s) + Len(n) : t[i] = IF i <= Len(s) THEN s[i] ELSE n[i - Len(s)]
  BY ConcatProperties
<1> HIDE DEF t
<1>2. Len(t) = 3 /\ Len(s) + Len(n) = 3
  BY <1>1
<1>3. t[2] = n[2 - 1] /\ t[3] = n[3 - 1]
  BY <1>1, <1>2
<1>4. t \in [1 .. Len(t) -> Int]
  <2>1. t \in Seq(Int)
    BY <1>1
  <2> QED BY <2>1
<1>5. t \in [1 .. 3 -> Int]
  BY <1>2, <1>4, Zenon
<1>6. 2 - 1 = 1 /\ 3 - 1 = 2
  OBVIOUS
<1> QED BY <1>3, <1>5, <1>6, Zenon DEF t

\* The complete orders: no two organizations and no two repositories have the same key.
LEMMA OrgKeys ==
  ASSUME DatabaseOK(db), NEW f \in OrgFilters, f.products # {} \/ f.sort = "prs"
  PROVE  Complete([o \in OrgRows(f) |-> OrgKey(f, o)])
<1> DEFINE key == [o \in OrgRows(f) |-> OrgKey(f, o)]
           accounts == Tallied(f)
           rows(o) == {row \in OkOf(o) : f.products # {} => InLanguage(row, f)}
           columns(o) == CASE f.sort = "prs" -> <<OrgPRs(o, accounts)>>
                           [] f.sort = "repos" -> <<Cardinality(rows(o)), StarsOf(rows(o))>>
                           [] f.sort = "stars" -> <<StarsOf(rows(o))>>
           k == IF f.sort = "repos" THEN 2 ELSE 1
<1>1. IsFiniteSet(OrgRows(f)) /\ OrgRows(f) \subseteq Nat
  BY Listed
<1>2. \A o : OrgPRs(o, accounts) \in Nat /\ StarsOf(rows(o)) \in Nat /\ Cardinality(rows(o)) \in Nat
  BY OrgCounts
<1>3. f.sort \in Sorts
  BY DEF OrgFilters, Filters
<1>4. \A o : OrgKey(f, o) = Append(columns(o), -o)
  BY DEF OrgKey
<1>5. DOMAIN key = OrgRows(f) /\ \A o \in OrgRows(f) : key[o] = OrgKey(f, o)
  OBVIOUS
<1> HIDE DEF key, accounts, rows
<1>6. ASSUME NEW o PROVE columns(o) \in Seq(Int) /\ Len(columns(o)) = k
  <2>1. CASE f.sort = "prs"
    BY <1>2, <2>1
  <2>2. CASE f.sort = "repos"
    BY <1>2, <2>2
  <2>3. CASE f.sort = "stars"
    BY <1>2, <2>3
  <2> QED BY <1>3, <2>1, <2>2, <2>3 DEF Sorts
<1>7. k \in Nat
  OBVIOUS
<1> HIDE DEF columns, k
<1>8. ASSUME NEW o \in OrgRows(f)
      PROVE  key[o] \in [1 .. (k + 1) -> Int] /\ key[o][k + 1] = -o
  <2>1. -o \in Int
    BY <1>1
  <2>2. Append(columns(o), -o) \in [1 .. (k + 1) -> Int] /\ Append(columns(o), -o)[k + 1] = -o
    BY <1>6, <2>1, ColumnAfter
  <2> QED BY <1>4, <1>5, <2>2
<1>9. ASSUME NEW o \in OrgRows(f), NEW p \in OrgRows(f), key[o] = key[p] PROVE o = p
  <2>1. -o = -p
    BY <1>8, <1>9
  <2> QED BY <1>1, <2>1
<1>10. Complete(key)
  <2>1. k + 1 \in Nat
    BY <1>7
  <2> QED BY <1>1, <1>5, <1>8, <1>9, <2>1, ColumnsComplete
<1> QED BY <1>10 DEF key

LEMMA RepoKeys ==
  ASSUME DatabaseOK(db), NEW f \in RepoFilters,
         f.sort = "prs" \/ (f.products # {} /\ Merged(db.ok))
  PROVE  Complete([row \in RepoRows(f) |-> RepoKey(f, row)])
<1> DEFINE key == [row \in RepoRows(f) |-> RepoKey(f, row)]
           accounts == Tallied(f)
           columns(row) == IF f.sort = "prs" THEN <<EventCount(row[1], accounts)>>
                                            ELSE <<Stars[row]>>
<1>1. /\ IsFiniteSet(RepoRows(f))
      /\ \A row \in RepoRows(f) : /\ row = <<row[1], row[2]>> /\ row[1] = <<row[1][1], row[1][2]>>
                                  /\ row[1][1] \in Nat /\ row[1][2] \in Nat
  <2>1. RepoRows(f) \subseteq Repositories \X (Copies \cup {0}) /\ IsFiniteSet(RepoRows(f))
    BY Listed
  <2>2. Repositories \subseteq Nat \X Nat
    BY ListingsAssumption
  <2> QED BY <2>1, <2>2
<1>2. \A r : EventCount(r, accounts) \in Nat
  BY Events
<1>3. \A row : RepoKey(f, row) = columns(row) \o <<-row[1][1], -row[1][2]>>
  BY DEF RepoKey
<1>4. DOMAIN key = RepoRows(f) /\ \A row \in RepoRows(f) : key[row] = RepoKey(f, row)
  OBVIOUS
<1> HIDE DEF key, accounts
<1>5. ASSUME NEW row \in RepoRows(f)
      PROVE  key[row] \in [1 .. 3 -> Int] /\ key[row][2] = -row[1][1] /\ key[row][3] = -row[1][2]
  <2>1. f.sort # "prs" => Stars[row] \in Nat
    BY Listed, Databased, ListingsAssumption
  <2>2. columns(row) \in Seq(Int) /\ Len(columns(row)) = 1
    BY <1>2, <2>1
  <2>3. -row[1][1] \in Int /\ -row[1][2] \in Int
    BY <1>1
  <2> HIDE DEF columns
  <2> DEFINE names == <<-row[1][1], -row[1][2]>>
  <2>4. names \in Seq(Int) /\ Len(names) = 2 /\ names[1] = -row[1][1] /\ names[2] = -row[1][2]
    BY <2>3
  <2>5. key[row] = columns(row) \o names
    BY <1>3, <1>4
  <2> HIDE DEF names
  <2>6. columns(row) \o names \in [1 .. 3 -> Int]
        /\ (columns(row) \o names)[2] = names[1] /\ (columns(row) \o names)[3] = names[2]
    BY <2>2, <2>4, ColumnBefore
  <2> QED BY <2>4, <2>5, <2>6
<1>6. ASSUME NEW q \in RepoRows(f), NEW r \in RepoRows(f), key[q] = key[r] PROVE q = r
  <2>1. -q[1][1] = -r[1][1] /\ -q[1][2] = -r[1][2]
    BY <1>5, <1>6
  <2>2. q[1][1] \in Nat /\ q[1][2] \in Nat /\ r[1][1] \in Nat /\ r[1][2] \in Nat
    BY <1>1
  <2>3. q[1][1] = r[1][1] /\ q[1][2] = r[1][2]
    BY <2>1, <2>2
  <2>4. q[1] = r[1]
    BY <1>1, <2>3
  <2>5. CASE f.sort = "prs"
    <3>1. q[2] = 0 /\ r[2] = 0
      BY <2>5, Listed
    <3> QED BY <1>1, <2>4, <3>1
  <2>6. CASE f.sort # "prs"
    <3>1. q \in db.ok /\ r \in db.ok /\ Merged(db.ok)
      BY <2>6, Listed
    <3> QED BY <2>4, <3>1 DEF Merged
  <2> QED BY <2>5, <2>6
<1>7. Complete(key)
  BY <1>1, <1>4, <1>5, <1>6, ColumnsComplete
<1> QED BY <1>7 DEF key

\* A page has the rows of its positions.
LEMMA PagePositions ==
  ASSUME NEW S, NEW rows \in Seq(S), NEW size \in 1 .. 2, NEW n \in Nat \ {0}
  PROVE  LET page == PageOf(rows, n, size) IN
         /\ page \in Seq(S)
         /\ \A i \in DOMAIN page : \E k \in DOMAIN rows :
              page[i] = rows[k] /\ (n - 1) * size < k /\ k <= n * size
<1> DEFINE last == Min({n * size, Len(rows)})
           from == (n - 1) * size + 1
           page == SubSeq(rows, from, last)
<1>1. PageOf(rows, n, size) = page
  BY DEF PageOf
<1>2. Len(rows) \in Nat /\ n * size \in Nat /\ from \in Nat \ {0} /\ DOMAIN rows = 1 .. Len(rows)
  <2>1. CASE size = 1
    BY <2>1
  <2>2. CASE size = 2
    BY <2>2
  <2> QED BY <2>1, <2>2
<1>3. last \in Nat /\ last <= n * size /\ last <= Len(rows)
  BY <1>2, SmallOf
<1> HIDE DEF last, from
<1>4. page = [i \in 1 .. ((last - from) + 1) |-> rows[(i + from) - 1]]
  BY <1>2, <1>3, SubSeqProperties
<1>5. \A i \in 1 .. ((last - from) + 1) :
        /\ (i + from) - 1 \in 1 .. Len(rows) /\ (i + from) - 1 >= from /\ (i + from) - 1 <= last
        /\ page[i] = rows[(i + from) - 1]
  BY <1>2, <1>3, <1>4
<1>6. page \in Seq(S)
  BY <1>2, <1>3, SubSeqProperties
<1>7. ASSUME NEW i \in DOMAIN page
      PROVE  \E k \in DOMAIN rows : page[i] = rows[k] /\ (n - 1) * size < k /\ k <= n * size
  <2>1. DOMAIN page = 1 .. ((last - from) + 1)
    BY <1>4
  <2> DEFINE k == (i + from) - 1
  <2>2. k \in DOMAIN rows /\ page[i] = rows[k] /\ k >= from /\ k <= last /\ k \in Int
    <3> HIDE DEF page
    <3>1. i \in 1 .. ((last - from) + 1)
      BY <1>7, <2>1
    <3>2. k \in 1 .. Len(rows) /\ k >= from /\ k <= last /\ page[i] = rows[k]
      BY <1>5, <3>1
    <3> HIDE DEF k
    <3> QED BY <1>2, <3>2
  <2> HIDE DEF k, page
  <2>3. (n - 1) * size \in Int /\ from = (n - 1) * size + 1
    BY <1>2 DEF from
  <2>4. (n - 1) * size < k /\ k <= n * size
    BY <1>2, <1>3, <2>2, <2>3
  <2> QED BY <2>2, <2>4
<1> QED BY <1>1, <1>6, <1>7

\* And sorting it again by the numbers that are shown leaves its organizations.
LEMMA PageOwners ==
  ASSUME DatabaseOK(db), NEW f \in OrgFilters, NEW order \in Seq(Nat),
         NEW size \in 1 .. 2, NEW n \in Nat \ {0},
         NEW i \in Range(OrgPage(f, order, n, size))
  PROVE  \E k \in DOMAIN order :
           i.owner = order[k] /\ (n - 1) * size < k /\ k <= n * size
<1> DEFINE page == PageOf(order, n, size)
           items == [j \in DOMAIN page |-> OrgItem(f, page[j])]
           key == [j \in Range(items) |-> <<j.total_prs, -j.owner>>]
<1>1. /\ page \in Seq(Nat)
      /\ \A j \in DOMAIN page : \E k \in DOMAIN order :
           page[j] = order[k] /\ (n - 1) * size < k /\ k <= n * size
  BY PagePositions
<1>2. OrgPage(f, order, n, size)
        = IF f.sort = "prs" THEN CHOOSE s \in Orders(key) : TRUE ELSE items
  BY DEF OrgPage
<1> HIDE DEF page
<1>3. DOMAIN items = DOMAIN page /\ \A j \in DOMAIN items : items[j] = OrgItem(f, page[j])
  OBVIOUS
<1> HIDE DEF items
<1>4. \A o : OrgItem(f, o).owner = o /\ OrgItem(f, o).total_prs \in Nat
             /\ OrgItem(f, o) = [owner |-> o, total_stars |-> OrgItem(f, o).total_stars,
                                 repo_count |-> OrgItem(f, o).repo_count,
                                 total_prs |-> OrgItem(f, o).total_prs]
  <2>1. \A o : OrgItem(f, o).total_prs \in Nat
    BY OrgCounts
  <2>2. \A o : OrgItem(f, o).owner = o
    BY DEF OrgItem
  <2> QED BY <2>1, <2>2 DEF OrgItem
<1>5. \A j \in Range(items) : \E k \in DOMAIN page : j = OrgItem(f, page[k])
  BY <1>3 DEF Range
<1>6. ASSUME f.sort = "prs" PROVE Range(OrgPage(f, order, n, size)) = Range(items)
  <2>1. DOMAIN key = Range(items) /\ \A j \in Range(items) : key[j] = <<j.total_prs, -j.owner>>
    OBVIOUS
  <2> HIDE DEF key
  <2>2. IsFiniteSet(Range(items))
    <3>1. IsFiniteSet(DOMAIN page)
      <4>1. DOMAIN page = 1 .. Len(page) /\ Len(page) \in Nat
        BY <1>1
      <4> QED BY <4>1, FS_Interval
    <3>2. \A y \in Range(items) : \E x \in DOMAIN page : y = items[x]
      BY <1>3 DEF Range
    <3> QED BY <3>1, <3>2, CountRange
  <2>3. \A j \in Range(items) : j.owner \in Nat /\ j.total_prs \in Nat /\ j = OrgItem(f, j.owner)
    <3> SUFFICES ASSUME NEW j \in Range(items)
                 PROVE  j.owner \in Nat /\ j.total_prs \in Nat /\ j = OrgItem(f, j.owner)
      OBVIOUS
    <3>1. PICK k \in DOMAIN page : j = OrgItem(f, page[k])
      BY <1>5
    <3>2. page[k] \in Nat
      BY <1>1
    <3>3. j.owner = page[k] /\ j.total_prs \in Nat
      BY <1>4, <3>1
    <3> QED BY <3>1, <3>2, <3>3
  <2>4. ASSUME NEW j \in DOMAIN key PROVE key[j] \in [1 .. 2 -> Int]
    <3> DEFINE a == j.total_prs
               b == -j.owner
    <3>1. key[j] = <<a, b>> /\ a \in Int /\ b \in Int
      BY <2>1, <2>3
    <3> HIDE DEF a, b
    <3> QED BY <3>1
  <2>5. ASSUME NEW j \in DOMAIN key, NEW l \in DOMAIN key, key[j] = key[l] PROVE j = l
    <3>1. key[j][2] = -j.owner /\ key[l][2] = -l.owner
      BY <2>1
    <3>2. j.owner = l.owner
      BY <2>1, <2>3, <2>5, <3>1
    <3> QED BY <2>1, <2>3, <3>2
  <2>6. Complete(key)
    BY <2>1, <2>2, <2>4, <2>5, ColumnsComplete
  <2>7. OrgPage(f, order, n, size) \in Orders(key)
    BY <1>2, <1>6, <2>6, SomeOrder
  <2> QED BY <2>1, <2>6, <2>7, PlacesInOrder
<1>7. Range(OrgPage(f, order, n, size)) = Range(items)
  BY <1>2, <1>6
<1>8. PICK j \in DOMAIN page : i = OrgItem(f, page[j])
  BY <1>5, <1>7
<1>9. i.owner = page[j]
  BY <1>4, <1>8
<1> QED BY <1>1, <1>9

\* A complete order is one and the same in every query, so that its pages are disjoint.
LEMMA PagesAreParts == ASSUME DatabaseOK(db) PROVE PagesPartition
<1>1. ASSUME NEW size \in 1 .. 2, NEW f \in OrgFilters, f.products # {} \/ f.sort = "prs",
             NEW first \in OrgOrders(f), NEW second \in OrgOrders(f),
             NEW n \in 1 .. Len(first), NEW m \in 1 .. Len(first), n # m
      PROVE  {i.owner : i \in Range(OrgPage(f, first, n, size))}
               \cap {i.owner : i \in Range(OrgPage(f, second, m, size))} = {}
  <2> DEFINE key == [o \in OrgRows(f) |-> OrgKey(f, o)]
  <2>1. Complete(key) /\ first \in Orders(key) /\ second \in Orders(key)
    BY <1>1, OrgKeys DEF OrgOrders
  <2>2. DOMAIN key \subseteq Nat
    BY Listed
  <2> HIDE DEF key
  <2>3. second = first
    BY <2>1, OneOrder
  <2>4. /\ Len(first) \in Nat /\ DOMAIN first = 1 .. Len(first) /\ first \in Seq(DOMAIN key)
        /\ \A k, l \in 1 .. Len(first) : first[k] = first[l] => k = l
    BY <2>1, PlacesInOrder
  <2>5. first \in Seq(Nat) /\ n \in Nat \ {0} /\ m \in Nat \ {0}
    BY <2>2, <2>4
  <2>6. ASSUME NEW i \in Range(OrgPage(f, first, n, size)),
               NEW j \in Range(OrgPage(f, first, m, size)), i.owner = j.owner
        PROVE  FALSE
    <3>1. PICK k \in DOMAIN first : i.owner = first[k] /\ (n - 1) * size < k /\ k <= n * size
      BY <2>5, PageOwners
    <3>2. PICK l \in DOMAIN first : j.owner = first[l] /\ (m - 1) * size < l /\ l <= m * size
      BY <2>5, PageOwners
    <3>3. first[k] = first[l] /\ k \in 1 .. Len(first) /\ l \in 1 .. Len(first)
      BY <2>4, <2>6, <3>1, <3>2
    <3>6. k = l /\ k \in Nat
      BY <2>4, <3>3
    <3>4. CASE size = 1
      BY <1>1, <2>4, <3>1, <3>2, <3>6, <3>4
    <3>5. CASE size = 2
      BY <1>1, <2>4, <3>1, <3>2, <3>6, <3>5
    <3> QED BY <3>4, <3>5
  <2> QED BY <2>3, <2>6
<1>2. ASSUME NEW f \in RepoFilters, f.sort = "prs" \/ (f.products # {} /\ Merged(db.ok)),
             NEW first \in RepoOrders(f), NEW second \in RepoOrders(f)
      PROVE  first = second
  BY <1>2, RepoKeys, OneOrder DEF RepoOrders
<1> QED BY <1>1, <1>2 DEF PagesPartition

\* For any contents of the tables: the pages of the organizations and repositories that
\* match are disjoint parts of one order, the sort never changes who is listed with a product
\* filter, and menus and product pages announce the numbers of the lists (getOrgList,
\* getRepoList, getOrgLanguageOptions, getRepoLanguageOptions, getTopReposByProduct).
THEOREM ListsHold == db \in Databases => ListsAgree
<1>1. SUFFICES ASSUME db \in Databases PROVE ListsAgree
  OBVIOUS
<1>2. DatabaseOK(db) /\ PagesPartition
  BY <1>1, DatabasesAssumption, PagesAreParts
<1>3. ASSUME NEW f \in OrgFilters, f.products # {}, NEW sort \in Sorts
      PROVE  OrgRows(With(f, sort)) = OrgRows(f)
  <2> DEFINE g == With(f, sort)
  <2>1. /\ g.products = f.products /\ g.languages = f.languages /\ g.search = f.search
    BY DEF With, OrgFilters, Filters
  <2> HIDE DEF g
  <2>2. \A r : InLanguage(r, g) <=> InLanguage(r, f)
    BY <2>1 DEF InLanguage
  <2>3. \A o : SomeOk(o, g) <=> SomeOk(o, f)
    BY <2>2 DEF SomeOk
  <2>4. Tallied(g) = Tallied(f)
    BY <1>3, <2>1 DEF Tallied, Joined
  <2>5. OrgRows(g) = OrgRows(f)
    BY <1>3, <2>1, <2>3, <2>4 DEF OrgRows
  <2> QED BY <2>5 DEF g
<1>4. ASSUME NEW f \in RepoFilters, f.products # {}
      PROVE  LET byPRs == RepoRows(With(f, "prs"))
                 byStars == RepoRows(With(f, "stars"))
             IN /\ {row[1] : row \in byPRs} = {row[1] : row \in byStars}
                /\ Cardinality(byPRs) <= Cardinality(byStars)
                /\ Merged(db.ok) => Cardinality(byPRs) = Cardinality(byStars)
  <2> DEFINE g == With(f, "prs")
             h == With(f, "stars")
  <2>1. /\ g.products = f.products /\ g.languages = f.languages /\ g.search = f.search
        /\ h.products = f.products /\ h.languages = f.languages /\ h.search = f.search
        /\ g.sort = "prs" /\ h.sort = "stars"
    BY DEF With, RepoFilters, Filters
  <2> HIDE DEF g, h
  <2>2. \A r : InLanguage(r, g) <=> InLanguage(r, h)
    BY <2>1 DEF InLanguage
  <2>3. Tallied(g) = Tallied(h)
    BY <1>4, <2>1 DEF Tallied, Joined
  <2> DEFINE T == RepoRows(h)
             name == [row \in T |-> <<row[1], 0>>]
  <2>4. RepoRows(g) = {name[row] : row \in T}
    BY <1>4, <2>1, <2>2, <2>3 DEF RepoRows
  <2>5. IsFiniteSet(T) /\ T \in SUBSET db.ok
    <3>1. RepoRows(h) \in SUBSET db.ok
      BY <2>1 DEF RepoRows
    <3> QED BY <1>2, <3>1, Databased, FS_Subset
  <2>6. \A row \in T : name[row] = <<row[1], 0>>
    OBVIOUS
  <2> HIDE DEF T, name
  <2>7. {row[1] : row \in RepoRows(g)} = {row[1] : row \in T}
    BY <2>4, <2>6
  <2>8. Cardinality(RepoRows(g)) <= Cardinality(T)
    <3>1. \A y \in RepoRows(g) : \E x \in T : y = name[x]
      BY <2>4
    <3> QED BY <2>5, <3>1, CountRange
  <2>9. ASSUME Merged(db.ok) PROVE Cardinality(RepoRows(g)) = Cardinality(T)
    <3>1. \A x, y \in T : name[x] = name[y] => x = y
      <4> SUFFICES ASSUME NEW x \in T, NEW y \in T, name[x] = name[y] PROVE x = y
        OBVIOUS
      <4>1. <<x[1], 0>> = <<y[1], 0>>
        BY <2>6
      <4>2. x[1] = y[1] /\ x \in db.ok /\ y \in db.ok
        BY <2>5, <4>1
      <4> QED BY <2>9, <4>2 DEF Merged
    <3>2. Cardinality({name[x] : x \in T}) = Cardinality(T)
      BY <2>5, <3>1, SameNumber
    <3> QED BY <2>4, <3>2
  <2> QED BY <2>7, <2>8, <2>9 DEF T, g, h
<1>5. ASSUME NEW l \in Range(Language)
      PROVE  LET f(things) == [products |-> {}, languages |-> {l}, search |-> things,
                               sort |-> "stars"] IN
             /\ OrgLanguageCount(l) = Cardinality(OrgRows(f(Owners)))
             /\ RepoLanguageCount(l) = Cardinality(RepoRows(f(Repositories)))
  <2> DEFINE f(things) == [products |-> {}, languages |-> {l}, search |-> things, sort |-> "stars"]
  <2>1. \A things : /\ f(things).products = {} /\ f(things).languages = {l}
                    /\ f(things).search = things /\ f(things).sort # "prs"
    OBVIOUS
  <2> HIDE DEF f
  <2>2. \A r, things : InLanguage(r, f(things)) <=> Language[r] = l
    BY <2>1 DEF InLanguage
  <2>3. {row[1][1] : row \in {q \in db.ok : Language[q] = l}} = OrgRows(f(Owners))
    <3>1. OrgRows(f(Owners)) = {o \in Owners : SomeOk(o, f(Owners))}
      BY <2>1 DEF OrgRows
    <3>2. \A o : SomeOk(o, f(Owners)) <=> \E r \in db.ok : r[1][1] = o /\ Language[r] = l
      BY <2>2 DEF SomeOk, OkOf
    <3>3. \A r \in db.ok : r[1][1] \in Owners
      BY <1>2, Databased
    <3> QED BY <3>1, <3>2, <3>3
  <2>4. {r \in db.ok : Language[r] = l} = RepoRows(f(Repositories))
    <3>1. RepoRows(f(Repositories))
            = {r \in db.ok : r[1] \in Repositories /\ InLanguage(r, f(Repositories))}
      BY <2>1 DEF RepoRows
    <3> QED BY <1>2, <2>2, <3>1, Databased
  <2>5. /\ OrgLanguageCount(l) = Cardinality(OrgRows(f(Owners)))
        /\ RepoLanguageCount(l) = Cardinality(RepoRows(f(Repositories)))
    BY <2>3, <2>4 DEF OrgLanguageCount, RepoLanguageCount
  <2> QED BY <2>5 DEF f
<1>6. ASSUME NEW product \in ProductIds
      PROVE  LET f == [products |-> {product}, languages |-> {}, search |-> Repositories,
                       sort |-> "prs"] IN
             TopReposTotal(product) = Cardinality(RepoRows(f))
  <2> DEFINE f == [products |-> {product}, languages |-> {}, search |-> Repositories, sort |-> "prs"]
  <2>1. f.products = {product} /\ f.languages = {} /\ f.search = Repositories /\ f.sort = "prs"
    OBVIOUS
  <2> HIDE DEF f
  <2>2. \A r : InLanguage(r, f)
    BY <2>1 DEF InLanguage
  <2> DEFINE names == {r \in {row[1] : row \in db.ok} : EventCount(r, BotsOf({product})) > 0}
             row == [r \in names |-> <<r, 0>>]
  <2>3. Tallied(f) = BotsOf({product}) /\ \A r \in db.ok : r[1] \in Repositories
    BY <1>2, <2>1, Databased DEF Tallied, Joined
  <2>4. {row[r] : r \in names} = RepoRows(f)
    BY <2>1, <2>2, <2>3 DEF RepoRows
  <2>5. IsFiniteSet(names)
    <3> DEFINE g == [x \in db.ok |-> x[1]]
    <3>1. \A r \in names : \E x \in db.ok : r = g[x]
      OBVIOUS
    <3> HIDE DEF names, g
    <3> QED BY <1>2, <3>1, Databased, CountRange
  <2>6. \A x, y \in names : row[x] = row[y] => x = y
    OBVIOUS
  <2>7. TopReposTotal(product) = Cardinality(names)
    BY DEF TopReposTotal
  <2> HIDE DEF names, row
  <2>8. Cardinality({row[r] : r \in names}) = Cardinality(names)
    BY <2>5, <2>6, SameNumber
  <2>9. TopReposTotal(product) = Cardinality(RepoRows(f))
    BY <2>4, <2>7, <2>8
  <2> QED BY <2>9 DEF f
<1> QED BY <1>2, <1>3, <1>4, <1>5, <1>6 DEF ListsAgree

-----------------------------------------------------------------------------
(* The weekly numbers *)

\* Rows of a weekly table: finitely many, with numbers for what they count.
Tabled(rows) ==
  /\ IsFiniteSet(rows)
  /\ \A r \in rows : /\ r.week \in Nat \ {0} /\ r.repos \in Nat /\ r.orgs \in Nat
                     /\ \A k \in Kinds : r.n[k] \in Nat

Adopted(r) == [bot |-> r.bot, week |-> r.week, copy |-> 0, repos |-> 0, orgs |-> 0,
               n |-> [k \in Kinds |-> IF k = "reviews" THEN r.n ELSE 0]]

LEMMA RowsTabled ==
  ASSUME HistoryOK(weekly)
  PROVE  /\ Tabled(weekly.activity) /\ Tabled(Rows) /\ \A S \in SUBSET Rows : Tabled(S)
         /\ Rows = weekly.activity \cup {Adopted(r) : r \in weekly.reactions}
<1> DEFINE f == [r \in weekly.reactions |-> Adopted(r)]
           A == {Adopted(r) : r \in weekly.reactions}
<1>1. Rows = weekly.activity \cup A
  BY DEF Rows, Adopted
<1>2. IsFiniteSet(A)
  <2>1. A = {f[r] : r \in weekly.reactions}
    OBVIOUS
  <2>2. IsFiniteSet(weekly.reactions)
    BY DEF HistoryOK
  <2> HIDE DEF A, f
  <2> QED BY <2>1, <2>2, FiniteRange
<1>3. Tabled(weekly.activity)
  BY DEF HistoryOK, Tabled
<1>4. ASSUME NEW r \in A
      PROVE  /\ r.week \in Nat \ {0} /\ r.repos \in Nat /\ r.orgs \in Nat
             /\ \A k \in Kinds : r.n[k] \in Nat
  <2>1. PICK q \in weekly.reactions : r = Adopted(q)
    OBVIOUS
  <2>2. q.week \in Nat \ {0} /\ q.n \in Nat
    BY DEF HistoryOK
  <2>3. r.n = [k \in Kinds |-> IF k = "reviews" THEN q.n ELSE 0] /\ r.week = q.week
        /\ r.repos = 0 /\ r.orgs = 0
    BY <2>1 DEF Adopted
  <2> QED BY <2>2, <2>3
<1> HIDE DEF A
<1>5. Tabled(Rows)
  <2>1. IsFiniteSet(Rows)
    BY <1>1, <1>2, <1>3, FS_Union DEF Tabled
  <2> QED BY <1>1, <1>3, <1>4, <2>1 DEF Tabled
<1>6. \A S \in SUBSET Rows : Tabled(S)
  BY <1>5, FS_Subset DEF Tabled
<1> QED BY <1>1, <1>3, <1>5, <1>6 DEF A

LEMMA SumsOf ==
  ASSUME NEW rows, Tabled(rows), NEW k \in Kinds
  PROVE  /\ SumOf(rows, k) = SumFunctionOnSet([r \in rows |-> r.n[k]], rows)
         /\ SumOf(rows, k) \in Nat
<1> DEFINE f == [r \in rows |-> r.n[k]]
<1>1. DOMAIN f = rows /\ \A r \in rows : f[r] \in Nat
  BY DEF Tabled
<1>2. SumOf(rows, k) = SumFunction(f)
  BY DEF SumOf
<1> HIDE DEF f
<1>3. SumFunction(f) = SumFunctionOnSet(f, rows) /\ SumFunctionOnSet(f, rows) \in Nat
  BY <1>1, SumOfFunction, SumNat DEF Tabled
<1> QED BY <1>2, <1>3 DEF f

LEMMA SumsGrow ==
  ASSUME NEW rows, Tabled(rows), NEW part \in SUBSET rows, NEW k \in Kinds
  PROVE  /\ Tabled(part) /\ SumOf(part, k) \in Nat /\ SumOf(rows, k) \in Nat
         /\ SumOf(part, k) <= SumOf(rows, k)
<1> DEFINE f == [r \in rows |-> r.n[k]]
           g == [r \in part |-> r.n[k]]
<1>1. Tabled(part)
  BY FS_Subset DEF Tabled
<1>2. /\ \A r \in part : g[r] \in Int /\ g[r] = f[r]
      /\ \A r \in rows : f[r] \in Nat
  BY DEF Tabled
<1>3. /\ SumOf(rows, k) = SumFunctionOnSet(f, rows) /\ SumOf(rows, k) \in Nat
      /\ SumOf(part, k) = SumFunctionOnSet(g, part) /\ SumOf(part, k) \in Nat
  BY <1>1, SumsOf
<1>4. IsFiniteSet(rows) /\ IsFiniteSet(part)
  BY <1>1 DEF Tabled
<1> HIDE DEF f, g
<1>5. SumFunctionOnSet(g, part) = SumFunctionOnSet(f, part)
  BY <1>2, <1>4, SumSame
<1>6. SumFunctionOnSet(f, part) <= SumFunctionOnSet(f, rows)
  BY <1>2, <1>4, SumSubset
<1> QED BY <1>1, <1>3, <1>5, <1>6

LEMMA WeeksOf ==
  ASSUME NEW rows, Tabled(rows)
  PROVE  /\ Weeks(rows) \subseteq Nat \ {0} /\ IsFiniteSet(Weeks(rows))
         /\ Weeks(rows) = {} <=> rows = {}
<1> DEFINE f == [r \in rows |-> r.week]
<1>1. Weeks(rows) = {f[r] : r \in rows} /\ IsFiniteSet(rows)
  BY DEF Weeks, Tabled
<1>2. IsFiniteSet(Weeks(rows))
  <2> HIDE DEF f
  <2> QED BY <1>1, FiniteRange
<1>3. Weeks(rows) \subseteq Nat \ {0} /\ (Weeks(rows) = {} <=> rows = {})
  BY DEF Weeks, Tabled
<1> QED BY <1>2, <1>3

\* The last week that is over.
LEMMA LastOver ==
  ASSUME HistoryOK(weekly)
  PROVE  /\ RefWeek \in Nat /\ (RefWeek = 0 \/ RefWeek < weekly.now) /\ weekly.now \in Nat
<1> DEFINE S == {w \in Weeks(Rows) : w < weekly.now} \cup {0}
<1>1. IsFiniteSet({w \in Weeks(Rows) : w < weekly.now}) /\ Weeks(Rows) \subseteq Nat
  BY RowsTabled, WeeksOf, FS_Subset
<1>2. IsFiniteSet(S)
  BY <1>1, FS_AddElement
<1>3. S \in SUBSET Int /\ S # {} /\ S \subseteq Nat
  BY <1>1
<1>4. RefWeek = Max(S)
  BY DEF RefWeek
<1>5. \A w \in S : w = 0 \/ w < weekly.now
  OBVIOUS
<1> HIDE DEF S
<1>6. Max(S) \in S
  BY <1>2, <1>3, MaxMin
<1> QED BY <1>3, <1>4, <1>5, <1>6 DEF HistoryOK

LEMMA ActivityParts ==
  ASSUME NEW rows, NEW from
  PROVE  LET a == ActivityOf(rows, from) IN
         /\ a.total = Total(Since(rows, from)) /\ a.weeks_active = Cardinality(Weeks(Since(rows, from)))
         /\ a.first_seen = IF Since(rows, from) = {} THEN 0 ELSE Min(Weeks(Since(rows, from)))
         /\ a.lately = Total(Between(rows, Lately, 0)) /\ a.growth = Growth(rows)
         /\ a.recent = Recent(rows) /\ a.previous = Previous(rows)
BY DEF ActivityOf

LEMMA SummaryParts ==
  ASSUME NEW p, NEW from
  PROVE  LET rows == Of(Rows, p)
             shown == Since(rows, from)
             stats == Since(Of(weekly.stats, p), from)
             s == Summary(p, from)
         IN /\ s.activity = ActivityOf(rows, from) /\ s.activity.total = Total(shown)
            /\ s.total_repos = Peak(shown, "repos") /\ s.total_orgs = Peak(shown, "orgs")
            /\ s.votes = <<Ups(stats), Downs(stats)>> /\ s.rates = Rates(stats)
            /\ Comparison(p, from).summary = s
            /\ shown \in SUBSET Rows /\ rows \in SUBSET Rows
<1> DEFINE s == Summary(p, from)
<1>1. /\ s.activity = ActivityOf(Of(Rows, p), from)
      /\ s.total_repos = Peak(Since(Of(Rows, p), from), "repos")
      /\ s.total_orgs = Peak(Since(Of(Rows, p), from), "orgs")
      /\ s.votes = <<Ups(Since(Of(weekly.stats, p), from)), Downs(Since(Of(weekly.stats, p), from))>>
      /\ s.rates = Rates(Since(Of(weekly.stats, p), from))
  BY DEF Summary
<1>2. Comparison(p, from).summary = s
  BY DEF Comparison
<1>3. Since(Of(Rows, p), from) \in SUBSET Rows /\ Of(Rows, p) \in SUBSET Rows
  BY DEF Since, Of
<1>4. s.activity.total = Total(Since(Of(Rows, p), from))
  BY <1>1, ActivityParts
<1> HIDE DEF s
<1> QED BY <1>1, <1>2, <1>3, <1>4 DEF s

LEMMA TotalOf ==
  ASSUME NEW rows, NEW k \in Kinds
  PROVE  Total(rows)[k] = SumOf(rows, k)
BY DEF Total

LEMMA Rounded ==
  ASSUME NEW n \in Nat, NEW d \in Nat \ {0}
  PROVE  Round(n, d) \in Nat
<1>1. n \div d \in Nat
  <2> DEFINE q == n \div d
  <2>1. q \in Int /\ n % d \in 0 .. d - 1 /\ n = d * q + (n % d)
    OBVIOUS
  <2> HIDE DEF q
  <2>2. ~(q < 0)
    <3> SUFFICES ASSUME q <= -1 PROVE FALSE
      BY <2>1
    <3>1. d * q <= d * (-1)
      BY <2>1
    <3> QED BY <2>1, <3>1
  <2> QED BY <2>1, <2>2 DEF q
<1> QED BY <1>1 DEF Round

\* What of a product's numbers does not depend on the range.
LEMMA SameWindows ==
  ASSUME NEW p, NEW from
  PROVE  LET s == Summary(p, from).activity
             all == Summary(p, 0).activity
         IN /\ s.growth = Growth(Of(Rows, p)) /\ s.recent = Recent(Of(Rows, p))
            /\ s.previous = Previous(Of(Rows, p)) /\ s.lately = Total(Between(Of(Rows, p), Lately, 0))
            /\ <<s.growth, s.recent, s.previous, s.lately>>
                 = <<all.growth, all.recent, all.previous, all.lately>>
BY SummaryParts, ActivityParts

LEMMA WindowCounts ==
  ASSUME HistoryOK(weekly), NEW S \in SUBSET Rows
  PROVE  Recent(S) \in Nat /\ Previous(S) \in Nat
<1>1. Between(S, Window, 0) \in SUBSET Rows /\ Between(S, 2 * Window, Window) \in SUBSET Rows
  BY DEF Between
<1>2. "reviews" \in Kinds
  BY DEF Kinds
<1> QED BY <1>1, <1>2, RowsTabled, SumsOf DEF Recent, Previous

LEMMA AllWeeks ==
  ASSUME HistoryOK(weekly), NEW S \in SUBSET Rows
  PROVE  Since(S, 0) = S
BY RowsTabled DEF Since, Tabled

LEMMA TotalsGrow ==
  ASSUME HistoryOK(weekly), NEW p, NEW from \in Nat, NEW wide \in Nat, wide <= from, NEW k \in Kinds
  PROVE  /\ Summary(p, from).activity.total[k] \in Nat /\ Summary(p, wide).activity.total[k] \in Nat
         /\ Summary(p, from).activity.total[k] <= Summary(p, wide).activity.total[k]
<1> DEFINE N == Since(Of(Rows, p), from)
           W == Since(Of(Rows, p), wide)
<1>1. N \in SUBSET W /\ W \in SUBSET Rows
  BY RowsTabled DEF Since, Of, Tabled
<1>2. Tabled(W)
  BY <1>1, RowsTabled
<1>3. /\ Summary(p, from).activity.total[k] = SumOf(N, k)
      /\ Summary(p, wide).activity.total[k] = SumOf(W, k)
  BY SummaryParts, TotalOf
<1> HIDE DEF N, W
<1> QED BY <1>1, <1>2, <1>3, SumsGrow

\* The labels.
LEMMA OneLabel ==
  ASSUME HistoryOK(weekly), NEW p,
         Summary(p, 0).activity.total["reviews"] > 0
  PROVE  LET s == Summary(p, 0).activity IN
         Cardinality({label \in {"new", "inactive", "compared"} :
           CASE label = "new" -> IsNew(s) [] label = "inactive" -> IsDormant(s)
             [] label = "compared" -> s.previous >= Baseline /\ s.recent > 0}) = 1
<1> DEFINE s == Summary(p, 0).activity
           holds(label) == CASE label = "new" -> IsNew(s) [] label = "inactive" -> IsDormant(s)
                             [] label = "compared" -> s.previous >= Baseline /\ s.recent > 0
           labels == {label \in {"new", "inactive", "compared"} : holds(label)}
<1>1. /\ s.recent \in Nat /\ s.previous \in Nat /\ s.recent = Recent(Of(Rows, p))
      /\ s.previous = Previous(Of(Rows, p)) /\ s.growth = Growth(Of(Rows, p))
  <2>1. Of(Rows, p) \in SUBSET Rows
    BY DEF Of
  <2> QED BY <2>1, SameWindows, WindowCounts
<1>2. Baseline \in Nat
  BY TrendsAssumption
<1>3. s.total["reviews"] > 0
  OBVIOUS
<1> HIDE DEF s
<1>4. s.previous < Baseline => s.growth = 0
  BY <1>1 DEF Growth
<1>5. /\ holds("new") <=> s.growth = 0 /\ s.previous < Baseline /\ s.recent > 0
      /\ holds("inactive") <=> s.recent = 0
      /\ holds("compared") <=> s.previous >= Baseline /\ s.recent > 0
  BY <1>3 DEF IsNew, IsDormant
<1> HIDE DEF holds
<1>6. PICK label : labels = {label}
  <2>1. CASE s.recent = 0
    <3>1. holds("inactive") /\ ~holds("new") /\ ~holds("compared")
      BY <1>1, <1>5, <2>1
    <3>2. labels = {"inactive"}
      BY <3>1
    <3> QED BY <3>2
  <2>2. CASE s.recent > 0 /\ s.previous < Baseline
    <3>1. ~holds("inactive") /\ holds("new") /\ ~holds("compared")
      BY <1>1, <1>2, <1>4, <1>5, <2>2
    <3>2. labels = {"new"}
      BY <3>1
    <3> QED BY <3>2
  <2>3. CASE s.recent > 0 /\ s.previous >= Baseline
    <3>1. ~holds("inactive") /\ ~holds("new") /\ holds("compared")
      BY <1>1, <1>2, <1>5, <2>3
    <3>2. labels = {"compared"}
      BY <3>1
    <3> QED BY <3>2
  <2>4. s.recent = 0 \/ (s.recent > 0 /\ s.previous < Baseline) \/ (s.recent > 0 /\ s.previous >= Baseline)
    BY <1>1, <1>2
  <2> HIDE DEF labels
  <2> QED BY <2>1, <2>2, <2>3, <2>4
<1>7. Cardinality(labels) = 1
  BY <1>6, FS_Singleton
<1> QED BY <1>7 DEF holds, s

\* The week that is not over has no part in growth.
LEMMA GrowthOfOver ==
  ASSUME HistoryOK(weekly), NEW S \in SUBSET Rows
  PROVE  Growth({r \in S : r.week < weekly.now}) = Growth(S)
<1> DEFINE over == {r \in S : r.week < weekly.now}
<1>1. \A r \in S : r.week \in Nat \ {0}
  BY RowsTabled DEF Tabled
<1>2. RefWeek \in Nat /\ (RefWeek = 0 \/ RefWeek < weekly.now) /\ weekly.now \in Nat /\ Window \in Nat
  BY LastOver, TrendsAssumption
<1>3. \A r \in S : (r.week <= RefWeek - 0 \/ r.week <= RefWeek - Window) => r.week < weekly.now
  BY <1>1, <1>2
<1>4. /\ Between(over, Window, 0) = Between(S, Window, 0)
      /\ Between(over, 2 * Window, Window) = Between(S, 2 * Window, Window)
  BY <1>3 DEF Between
<1>5. Recent(over) = Recent(S) /\ Previous(over) = Previous(S)
  BY <1>4 DEF Recent, Previous
<1> HIDE DEF over
<1>6. Growth(over) = Growth(S)
  BY <1>5 DEF Growth
<1> QED BY <1>6 DEF over

LEMMA StaleIsIdle ==
  ASSUME HistoryOK(weekly), NEW p, Stale(p), RefWeek = weekly.now - 1
  PROVE  Summary(p, 0).activity.lately = Total({})
<1> DEFINE rows == Of(Rows, p)
<1>1. rows \in SUBSET Rows
  BY DEF Of
<1>2. Tabled(rows) /\ rows # {}
  BY <1>1, RowsTabled DEF Stale
<1>3. Weeks(rows) \in SUBSET Int /\ IsFiniteSet(Weeks(rows)) /\ Weeks(rows) # {}
  BY <1>2, WeeksOf
<1>4. \A w \in Weeks(rows) : w \in Nat /\ w <= Max(Weeks(rows)) /\ Max(Weeks(rows)) \in Int
  BY <1>2, <1>3, WeeksOf, MaxMin
<1>5. Max(Weeks(rows)) < weekly.now - Lately
  BY DEF Stale
<1>6. weekly.now \in Nat /\ Lately \in Nat
  BY TrendsAssumption DEF HistoryOK
<1>7. \A w \in Weeks(rows) : ~(RefWeek - Lately < w)
  BY <1>4, <1>5, <1>6
<1>8. Between(rows, Lately, 0) = {}
  BY <1>7 DEF Between, Weeks
<1> HIDE DEF rows
<1>9. Summary(p, 0).activity.lately = Total(Between(rows, Lately, 0))
  BY SameWindows DEF rows
<1> QED BY <1>8, <1>9

LEMMA WindowsHold ==
  ASSUME weekly \in Histories
  PROVE  WindowsIgnoreRange
<1>1. HistoryOK(weekly) /\ WeekNumbers \subseteq Nat
  BY HistoriesAssumption
<1>2. ASSUME NEW p \in ProductIds, NEW from \in WeekNumbers
      PROVE  LET s == Summary(p, from).activity
                 all == Summary(p, 0).activity
             IN /\ <<s.growth, s.recent, s.previous, s.lately>>
                     = <<all.growth, all.recent, all.previous, all.lately>>
                /\ IsNew(s) => ~IsDormant(all)
                /\ IsDormant(s) => IsDormant(all)
                /\ \A q \in ProductIds : Growth(Of(Rows, p)) > Growth(Of(Rows, q)) =>
                     Precedes(Rank(p, from), Rank(q, from))
  <2> DEFINE s == Summary(p, from).activity
             all == Summary(p, 0).activity
  <2>1. /\ <<s.growth, s.recent, s.previous, s.lately>>
             = <<all.growth, all.recent, all.previous, all.lately>>
        /\ s.recent = all.recent
    BY SameWindows
  <2>2. s.total["reviews"] \in Nat /\ all.total["reviews"] \in Nat
        /\ s.total["reviews"] <= all.total["reviews"]
    BY <1>1, TotalsGrow DEF Kinds
  <2>3. s.recent \in Nat
    <3>1. Of(Rows, p) \in SUBSET Rows
      BY DEF Of
    <3> QED BY <1>1, <3>1, SameWindows, WindowCounts
  <2>4. ASSUME NEW q \in ProductIds, Growth(Of(Rows, p)) > Growth(Of(Rows, q))
        PROVE  Precedes(Rank(p, from), Rank(q, from))
    <3> DEFINE a == Rank(p, from)
               b == Rank(q, from)
    <3>1. a[1] = Growth(Of(Rows, p)) /\ b[1] = Growth(Of(Rows, q)) /\ DOMAIN a = 1 .. 2
      BY SameWindows DEF Rank
    <3> HIDE DEF a, b
    <3>2. a[1] > b[1] /\ 1 \in DOMAIN a /\ \A j \in 1 .. (1 - 1) : a[j] = b[j]
      BY <2>4, <3>1
    <3>3. Precedes(a, b)
      BY <3>2 DEF Precedes
    <3> QED BY <3>3 DEF a, b
  <2> HIDE DEF s, all
  <2>5. IsNew(s) => ~IsDormant(all)
    BY <2>1, <2>3 DEF IsNew, IsDormant
  <2>6. IsDormant(s) => IsDormant(all)
    BY <2>1, <2>2 DEF IsDormant
  <2> QED BY <2>1, <2>4, <2>5, <2>6 DEF s, all
<1>3. ASSUME NEW p \in ProductIds
      PROVE  Growth({r \in Of(Rows, p) : r.week < weekly.now}) = Growth(Of(Rows, p))
  <2>1. Of(Rows, p) \in SUBSET Rows
    BY DEF Of
  <2> HIDE DEF Of
  <2> QED BY <1>1, <2>1, GrowthOfOver
<1>4. \A p \in ProductIds :
        LET s == Summary(p, 0).activity IN
        s.total["reviews"] > 0 =>
          Cardinality({label \in {"new", "inactive", "compared"} :
            CASE label = "new" -> IsNew(s) [] label = "inactive" -> IsDormant(s)
              [] label = "compared" -> s.previous >= Baseline /\ s.recent > 0}) = 1
  BY <1>1, OneLabel
<1>5. \A p \in ProductIds :
        Stale(p) /\ RefWeek = weekly.now - 1 => Summary(p, 0).activity.lately = Total({})
  BY <1>1, StaleIsIdle
<1> QED BY <1>2, <1>3, <1>4, <1>5 DEF WindowsIgnoreRange

PeakOf(rows, column, w) == SumFunction([r \in {q \in rows : q.week = w} |-> r[column]])

LEMMA Peaks ==
  ASSUME NEW rows, Tabled(rows), NEW column \in {"repos", "orgs"}
  PROVE  /\ \A w \in Weeks(rows) : PeakOf(rows, column, w) \in Nat /\ PeakOf(rows, column, w) <= Peak(rows, column)
         /\ Peak(rows, column) \in Nat
         /\ Peak(rows, column) = 0 \/ \E w \in Weeks(rows) : Peak(rows, column) = PeakOf(rows, column, w)
<1> DEFINE S == {PeakOf(rows, column, w) : w \in Weeks(rows)}
           f == [w \in Weeks(rows) |-> PeakOf(rows, column, w)]
           T == S \cup {0}
<1>1. ASSUME NEW w \in Weeks(rows) PROVE PeakOf(rows, column, w) \in Nat
  <2> DEFINE g == [r \in {q \in rows : q.week = w} |-> r[column]]
             D == {q \in rows : q.week = w}
  <2>1. IsFiniteSet(D) /\ DOMAIN g = D /\ \A r \in D : g[r] = r[column]
    BY FS_Subset DEF Tabled
  <2>2. \A r \in D : r.repos \in Nat /\ r.orgs \in Nat
    BY DEF Tabled
  <2>3. \A r \in D : g[r] \in Nat
    BY <2>1, <2>2
  <2> HIDE DEF g, D
  <2>4. SumFunction(g) \in Nat
    BY <2>1, <2>3, SumNat, SumOfFunction
  <2> QED BY <2>4 DEF PeakOf, g
<1>2. IsFiniteSet(S)
  <2>1. S = {f[w] : w \in Weeks(rows)}
    OBVIOUS
  <2> HIDE DEF S, f
  <2> QED BY <2>1, WeeksOf, FiniteRange
<1>3. T \subseteq Nat
  BY <1>1
<1>4. IsFiniteSet(T) /\ T \in SUBSET Int /\ T # {}
  <2> HIDE DEF S
  <2> QED BY <1>2, <1>3, FS_AddElement
<1>5. Peak(rows, column) = Max(T)
  BY DEF Peak, PeakOf
<1>6. \A x \in T : x = 0 \/ \E w \in Weeks(rows) : x = PeakOf(rows, column, w)
  OBVIOUS
<1>7. \A w \in Weeks(rows) : PeakOf(rows, column, w) \in T
  OBVIOUS
<1> HIDE DEF T
<1>8. Max(T) \in T /\ \A x \in T : x <= Max(T)
  BY <1>4, MaxMin
<1> QED BY <1>1, <1>3, <1>5, <1>6, <1>7, <1>8

LEMMA PeaksGrow ==
  ASSUME HistoryOK(weekly), NEW p, NEW from \in Nat, NEW wide \in Nat, wide <= from,
         NEW column \in {"repos", "orgs"}
  PROVE  Peak(Since(Of(Rows, p), from), column) <= Peak(Since(Of(Rows, p), wide), column)
<1> DEFINE rows == Of(Rows, p)
           N == Since(rows, from)
           W == Since(rows, wide)
<1>1. rows \in SUBSET Rows /\ N \in SUBSET Rows /\ W \in SUBSET Rows
  BY DEF Of, Since
<1>2. Tabled(N) /\ Tabled(W) /\ \A r \in rows : r.week \in Nat
  BY <1>1, RowsTabled DEF Tabled
<1>3. ASSUME NEW w \in Weeks(N) PROVE w \in Weeks(W) /\ PeakOf(N, column, w) = PeakOf(W, column, w)
  <2>1. w \in Weeks(W) /\ {q \in W : q.week = w} = {q \in N : q.week = w}
    <3>1. \A r \in rows : r.week \in Nat
      BY <1>2
    <3> HIDE DEF rows
    <3> QED BY <1>3, <3>1 DEF Since, Weeks
  <2> QED BY <2>1 DEF PeakOf
<1>4. /\ Peak(N, column) \in Nat /\ Peak(W, column) \in Nat
      /\ Peak(N, column) = 0 \/ \E w \in Weeks(N) : Peak(N, column) = PeakOf(N, column, w)
      /\ \A w \in Weeks(W) : PeakOf(W, column, w) <= Peak(W, column)
  BY <1>2, Peaks
<1> HIDE DEF N, W
<1>5. Peak(N, column) <= Peak(W, column)
  BY <1>3, <1>4
<1> QED BY <1>5 DEF N, W

\* No bot of a product is in more repositories in a week than the product.
LEMMA BotsAreWithin ==
  ASSUME HistoryOK(weekly), NEW p, NEW from, NEW b \in BotsWith(p)
  PROVE  BotSummary(b, from).total_repos <= Summary(p, from).total_repos
<1> DEFINE shown == Since(Of(Rows, p), from)
           own == Since({r \in Rows : r.bot = b}, from)
           S == {r.repos : r \in own}
           T == S \cup {0}
           f == [r \in own |-> r.repos]
<1>1. own \subseteq shown /\ shown \in SUBSET Rows
  BY DEF Since, Of
<1>2. Tabled(shown) /\ IsFiniteSet(own)
  BY <1>1, RowsTabled, FS_Subset DEF Tabled
<1>3. BotSummary(b, from).total_repos = Max(T)
  BY DEF BotSummary
<1>4. Summary(p, from).total_repos = Peak(shown, "repos")
  BY SummaryParts
<1> HIDE DEF shown
<1>5. IsFiniteSet(S)
  <2>1. S = {f[r] : r \in own}
    OBVIOUS
  <2> HIDE DEF S, f
  <2> QED BY <1>2, <2>1, FiniteRange
<1>6. S \subseteq Nat
  BY <1>1, <1>2 DEF Tabled
<1>7. Peak(shown, "repos") \in Nat
  BY <1>2, Peaks
<1>8. ASSUME NEW r \in own PROVE r.repos <= Peak(shown, "repos")
  <2> DEFINE D == {q \in shown : q.week = r.week}
             g == [q \in D |-> q["repos"]]
  <2>1. r \in D /\ IsFiniteSet(D) /\ DOMAIN g = D /\ \A q \in D : g[q] \in Nat
    BY <1>1, <1>2, FS_Subset DEF Tabled
  <2>2. g[r] = r.repos
    BY <2>1
  <2>3. r.week \in Weeks(shown)
    BY <1>1 DEF Weeks
  <2>4. PeakOf(shown, "repos", r.week) = SumFunction(g)
    BY DEF PeakOf
  <2> HIDE DEF D, g, own
  <2>5. SumFunctionOnSet(g, {r}) <= SumFunctionOnSet(g, D)
    BY <2>1, SumSubset
  <2>6. SumFunctionOnSet(g, {r}) = g[r]
    BY <2>1, SumSingle
  <2>7. g[r] <= SumFunction(g)
    BY <2>1, <2>5, <2>6, SumOfFunction
  <2>8. PeakOf(shown, "repos", r.week) <= Peak(shown, "repos")
    BY <1>2, <2>3, Peaks
  <2>9. PeakOf(shown, "repos", r.week) \in Nat
    BY <1>2, <2>3, Peaks
  <2>10. g[r] \in Nat
    BY <2>1
  <2> QED BY <1>7, <2>2, <2>4, <2>7, <2>8, <2>9, <2>10
<1>9. T \in SUBSET Int /\ T # {} /\ IsFiniteSet(T) /\ \A n \in T : n <= Peak(shown, "repos")
  <2>1. \A n \in S : n <= Peak(shown, "repos")
    BY <1>8
  <2> HIDE DEF S
  <2> QED BY <1>5, <1>6, <1>7, <2>1, FS_AddElement
<1>10. Max(T) <= Peak(shown, "repos")
  <2> HIDE DEF T
  <2> QED BY <1>9, MaxMin
<1> QED BY <1>3, <1>4, <1>10

LEMMA WeeksGrow ==
  ASSUME HistoryOK(weekly), NEW p, NEW from \in Nat, NEW wide \in Nat, wide <= from
  PROVE  LET w == Summary(p, wide).activity
             n == Summary(p, from).activity
         IN /\ n.weeks_active <= w.weeks_active
            /\ n.first_seen > 0 => w.first_seen \in 1 .. n.first_seen
<1> DEFINE rows == Of(Rows, p)
           N == Since(rows, from)
           W == Since(rows, wide)
<1>1. N \subseteq W /\ W \in SUBSET Rows /\ N \in SUBSET Rows
  BY RowsTabled DEF Since, Of, Tabled
<1>2. Tabled(N) /\ Tabled(W)
  BY <1>1, RowsTabled
<1>3. Weeks(N) \subseteq Weeks(W)
  BY <1>1 DEF Weeks
<1>4. /\ Summary(p, from).activity.weeks_active = Cardinality(Weeks(N))
      /\ Summary(p, wide).activity.weeks_active = Cardinality(Weeks(W))
      /\ Summary(p, from).activity.first_seen = IF N = {} THEN 0 ELSE Min(Weeks(N))
      /\ Summary(p, wide).activity.first_seen = IF W = {} THEN 0 ELSE Min(Weeks(W))
  BY SummaryParts, ActivityParts
<1> HIDE DEF N, W
<1>5. Cardinality(Weeks(N)) <= Cardinality(Weeks(W))
  BY <1>2, <1>3, WeeksOf, FS_Subset
<1>6. ASSUME N # {} PROVE Min(Weeks(W)) \in 1 .. Min(Weeks(N)) /\ W # {}
  <2>1. Weeks(N) # {} /\ Weeks(W) # {} /\ Weeks(N) \subseteq Nat \ {0} /\ Weeks(W) \subseteq Nat \ {0}
        /\ IsFiniteSet(Weeks(N)) /\ IsFiniteSet(Weeks(W)) /\ W # {}
    BY <1>1, <1>2, <1>3, <1>6, WeeksOf
  <2>2. Min(Weeks(N)) \in Weeks(N)
    <3>1. Weeks(N) \in SUBSET Int
      BY <2>1
    <3> QED BY <2>1, <3>1, MaxMin
  <2>3. Min(Weeks(W)) \in Weeks(W) /\ \A x \in Weeks(W) : Min(Weeks(W)) <= x
    <3>1. Weeks(W) \in SUBSET Int
      BY <2>1
    <3> QED BY <2>1, <3>1, MaxMin
  <2>4. Min(Weeks(W)) <= Min(Weeks(N)) /\ Min(Weeks(W)) \in Nat \ {0} /\ Min(Weeks(N)) \in Nat \ {0}
    BY <1>3, <2>1, <2>2, <2>3
  <2> QED BY <2>1, <2>4
<1> QED BY <1>4, <1>5, <1>6

\* More rows of comment_stats_weekly have more votes.
LEMMA VotesGrow ==
  ASSUME NEW stats, IsFiniteSet(stats),
         \A s \in stats : {s.up, s.down, s.comments, s.reacted} \subseteq Nat,
         NEW part \in SUBSET stats
  PROVE  /\ Ups(part) \in Nat /\ Ups(stats) \in Nat /\ Ups(part) <= Ups(stats)
         /\ Downs(part) \in Nat /\ Downs(stats) \in Nat /\ Downs(part) <= Downs(stats)
<1>1. IsFiniteSet(part)
  BY FS_Subset
<1>2. Ups(part) \in Nat /\ Ups(stats) \in Nat /\ Ups(part) <= Ups(stats)
  <2> DEFINE f == [s \in stats |-> s.up]
             g == [s \in part |-> s.up]
  <2>1. /\ \A s \in stats : f[s] \in Nat
        /\ \A s \in part : g[s] \in Nat /\ g[s] \in Int /\ g[s] = f[s]
        /\ DOMAIN f = stats /\ DOMAIN g = part
    OBVIOUS
  <2>2. Ups(stats) = SumFunction(f) /\ Ups(part) = SumFunction(g)
    BY DEF Ups
  <2> HIDE DEF f, g
  <2>3. SumFunctionOnSet(f, stats) \in Nat /\ SumFunctionOnSet(g, part) \in Nat
    BY <1>1, <2>1, SumNat
  <2>4. SumFunctionOnSet(g, part) = SumFunctionOnSet(f, part)
    BY <1>1, <2>1, SumSame
  <2>5. SumFunctionOnSet(f, part) <= SumFunctionOnSet(f, stats)
    BY <2>1, SumSubset
  <2> QED BY <2>1, <2>2, <2>3, <2>4, <2>5, SumOfFunction
<1>3. Downs(part) \in Nat /\ Downs(stats) \in Nat /\ Downs(part) <= Downs(stats)
  <2> DEFINE f == [s \in stats |-> s.down]
             g == [s \in part |-> s.down]
  <2>1. /\ \A s \in stats : f[s] \in Nat
        /\ \A s \in part : g[s] \in Nat /\ g[s] \in Int /\ g[s] = f[s]
        /\ DOMAIN f = stats /\ DOMAIN g = part
    OBVIOUS
  <2>2. Downs(stats) = SumFunction(f) /\ Downs(part) = SumFunction(g)
    BY DEF Downs
  <2> HIDE DEF f, g
  <2>3. SumFunctionOnSet(f, stats) \in Nat /\ SumFunctionOnSet(g, part) \in Nat
    BY <1>1, <2>1, SumNat
  <2>4. SumFunctionOnSet(g, part) = SumFunctionOnSet(f, part)
    BY <1>1, <2>1, SumSame
  <2>5. SumFunctionOnSet(f, part) <= SumFunctionOnSet(f, stats)
    BY <2>1, SumSubset
  <2> QED BY <2>1, <2>2, <2>3, <2>4, <2>5, SumOfFunction
<1> QED BY <1>2, <1>3

LEMMA RatesStay ==
  ASSUME HistoryOK(weekly), WeekNumbers \subseteq Nat,
         NEW p, NEW from \in Nat, NEW wide \in Nat, wide <= from, Summary(p, from).rates[1] >= 0
  PROVE  Summary(p, wide).rates[1] >= 0
<1> DEFINE N == Since(Of(weekly.stats, p), from)
           W == Since(Of(weekly.stats, p), wide)
<1>1. \A s \in weekly.stats : s.week \in Nat /\ {s.up, s.down, s.comments, s.reacted} \subseteq Nat
  BY DEF HistoryOK
<1>2. N \in SUBSET W /\ W \in SUBSET weekly.stats /\ IsFiniteSet(weekly.stats)
  BY <1>1 DEF Since, Of, HistoryOK
<1>3. IsFiniteSet(W) /\ \A s \in W : {s.up, s.down, s.comments, s.reacted} \subseteq Nat
  BY <1>1, <1>2, FS_Subset
<1>4. Summary(p, from).rates = Rates(N) /\ Summary(p, wide).rates = Rates(W)
  BY SummaryParts
<1> HIDE DEF N, W
<1>5. /\ Ups(N) \in Nat /\ Ups(W) \in Nat /\ Ups(N) <= Ups(W)
      /\ Downs(N) \in Nat /\ Downs(W) \in Nat /\ Downs(N) <= Downs(W)
  BY <1>2, <1>3, VotesGrow
<1>6. EnoughVotes \in Nat \ {0}
  BY TrendsAssumption
<1>7. \A S : Rates(S)[1] = IF Ups(S) + Downs(S) >= EnoughVotes
                           THEN Percent(Ups(S), Ups(S) + Downs(S)) ELSE -1
  BY DEF Rates
<1>8. Ups(N) + Downs(N) >= EnoughVotes
  BY <1>4, <1>7
<1>9. Ups(W) + Downs(W) >= EnoughVotes /\ Ups(W) + Downs(W) \in Nat \ {0} /\ 1000 * Ups(W) \in Nat
  BY <1>5, <1>6, <1>8
<1>10. Percent(Ups(W), Ups(W) + Downs(W)) \in Nat
  BY <1>9, Rounded DEF Percent
<1> QED BY <1>4, <1>7, <1>9, <1>10

LEMMA BotsStay ==
  ASSUME HistoryOK(weekly), NEW p, NEW from \in Nat, NEW wide \in Nat, wide <= from
  PROVE  {x.bot : x \in ProductBots(p, from)} \subseteq {x.bot : x \in ProductBots(p, wide)}
<1> DEFINE own(b, w) == Since({r \in Rows : r.bot = b}, w)
<1>1. ASSUME NEW w
      PROVE  {x.bot : x \in ProductBots(p, w)}
               = {b \in BotsWith(p) : SumOf(own(b, w), "reviews") > 0}
  <2>1. "reviews" \in Kinds
    BY DEF Kinds
  <2>2. \A b : Total(own(b, w))["reviews"] = SumOf(own(b, w), "reviews")
    BY <2>1, TotalOf
  <2> DEFINE B == {b \in BotsWith(p) : Total(own(b, w))["reviews"] > 0}
  <2>3. ProductBots(p, w) = {[bot |-> b, total |-> Total(own(b, w))] : b \in B}
    BY DEF ProductBots
  <2>4. {x.bot : x \in ProductBots(p, w)} = B
    <3> HIDE DEF B, own
    <3> DEFINE row(b) == [bot |-> b, total |-> Total(own(b, w))]
    <3>1. \A b : row(b).bot = b
      OBVIOUS
    <3> HIDE DEF row
    <3>2. \A x \in ProductBots(p, w) : \E b \in B : x = row(b)
      BY <2>3 DEF row
    <3>3. \A b \in B : row(b) \in ProductBots(p, w)
      BY <2>3 DEF row
    <3> QED BY <3>1, <3>2, <3>3
  <2> QED BY <2>2, <2>4
<1>2. ASSUME NEW b
      PROVE  /\ SumOf(own(b, from), "reviews") \in Nat /\ SumOf(own(b, wide), "reviews") \in Nat
             /\ SumOf(own(b, from), "reviews") <= SumOf(own(b, wide), "reviews")
  <2>1. own(b, from) \in SUBSET own(b, wide) /\ own(b, wide) \in SUBSET Rows
    BY RowsTabled DEF Since, Tabled
  <2>2. Tabled(own(b, wide)) /\ "reviews" \in Kinds
    BY <2>1, RowsTabled DEF Kinds
  <2> HIDE DEF own
  <2> QED BY <2>1, <2>2, SumsGrow
<1> HIDE DEF own
<1> SUFFICES ASSUME NEW b \in {x.bot : x \in ProductBots(p, from)}
             PROVE  b \in {x.bot : x \in ProductBots(p, wide)}
  OBVIOUS
<1>3. b \in BotsWith(p) /\ SumOf(own(b, from), "reviews") > 0
  BY <1>1
<1>4. SumOf(own(b, wide), "reviews") > 0
  BY <1>2, <1>3
<1> QED BY <1>1, <1>3, <1>4

\* The PRs of a range are those of a wider one, and of "all" once the view has them.
LEMMA SampledGrow ==
  ASSUME HistoryOK(weekly), NEW from \in Nat, NEW wide \in Nat, wide <= from,
         NEW p, wide > 0 \/ InView(p)
  PROVE  /\ Cardinality(Sampled(p, from)) <= Cardinality(Sampled(p, wide))
         /\ Cardinality(Sampled(p, from)) \in Nat /\ Cardinality(Sampled(p, wide)) \in Nat
<1>1. \A e \in weekly.events : e.week \in Nat
  BY DEF HistoryOK
<1>2. \A w \in Nat : IsFiniteSet(Sampled(p, w)) /\ Cardinality(Sampled(p, w)) \in Nat
  <2> TAKE w \in Nat
  <2>1. Sampled(p, w) \in SUBSET weekly.pulls \/ Sampled(p, w) \in SUBSET weekly.view
    BY DEF Sampled
  <2>2. IsFiniteSet(weekly.pulls) /\ IsFiniteSet(weekly.view)
    BY DEF HistoryOK
  <2> QED BY <2>1, <2>2, FS_Subset, FS_CardinalityType
<1>3. ASSUME NEW v \in Nat, NEW w \in Nat, 0 < v, v <= w
      PROVE  Sampled(p, w) \in SUBSET Sampled(p, v)
  <2>1. Since(Of(weekly.events, p), w) \subseteq Since(Of(weekly.events, p), v)
    BY <1>1, <1>3 DEF Since, Of
  <2> QED BY <1>3, <2>1 DEF Sampled
<1>4. CASE wide > 0
  BY <1>2, <1>3, <1>4, FS_Subset
<1>5. CASE wide = 0 /\ from > 0
  <2> DEFINE T == Sampled(p, from)
             S == Sampled(p, 0)
             f == [v \in S |-> CHOOSE row \in T : row.pr = v.pr]
  <2>1. T \subseteq Sampled(p, 1) /\ T \subseteq weekly.pulls
    BY <1>3, <1>5 DEF Sampled
  <2>2. ASSUME NEW row \in T PROVE \E v \in S : row = f[v]
    <3>1. PICK v \in S : v.pr = row.pr
      BY <1>5, <2>1 DEF InView
    <3>2. \A other \in T : other.pr = v.pr => other = row
      BY <1>5, <2>1, <3>1 DEF InView
    <3> HIDE DEF T, S
    <3> QED BY <3>1, <3>2
  <2>3. IsFiniteSet(S)
    BY <1>2
  <2> HIDE DEF T, S, f
  <2>4. Cardinality(T) <= Cardinality(S)
    BY <2>2, <2>3, CountRange
  <2> QED BY <1>2, <1>5, <2>4 DEF T, S
<1>6. CASE wide = 0 /\ from = 0
  BY <1>2, <1>6
<1> QED BY <1>4, <1>5, <1>6

LEMMA CharacteristicsStay ==
  ASSUME HistoryOK(weekly), NEW from \in Nat, NEW wide \in Nat, wide <= from,
         NEW p \in DOMAIN AllCharacteristics(from), wide > 0 \/ InView(p)
  PROVE  p \in DOMAIN AllCharacteristics(wide)
<1>1. \A w : DOMAIN AllCharacteristics(w) = {q \in ProductIds : Cardinality(Sampled(q, w)) >= EnoughPRs}
  BY DEF AllCharacteristics
<1>2. EnoughPRs \in Nat
  BY TrendsAssumption
<1>3. p \in ProductIds /\ Cardinality(Sampled(p, from)) >= EnoughPRs
  BY <1>1
<1>4. Cardinality(Sampled(p, wide)) >= EnoughPRs
  BY <1>2, <1>3, SampledGrow
<1> QED BY <1>1, <1>3, <1>4

\* For any rows of the weekly tables: the windows that growth, "New" and "Inactive" compare
\* do not depend on the range, and a wider range never shows less (the queries of
\* app/src/lib/clickhouse.ts and the labels of product-utils.ts).
THEOREM RangesHold == weekly \in Histories => RangesBehave
<1>1. SUFFICES ASSUME weekly \in Histories PROVE RangesBehave
  OBVIOUS
<1>2. HistoryOK(weekly) /\ WeekNumbers \subseteq Nat
  BY <1>1, HistoriesAssumption
<1>3. WindowsIgnoreRange
  BY <1>1, WindowsHold
<1>4. ASSUME NEW wide \in WeekNumbers, NEW narrow \in WeekNumbers, NEW p \in ProductIds, wide <= narrow
      PROVE  LET w == Comparison(p, wide).summary
                 n == Comparison(p, narrow).summary
             IN /\ \A k \in Kinds : n.activity.total[k] <= w.activity.total[k]
                /\ n.total_repos <= w.total_repos /\ n.total_orgs <= w.total_orgs
                /\ n.activity.weeks_active <= w.activity.weeks_active
                /\ \A b \in BotsWith(p) : BotSummary(b, narrow).total_repos <= n.total_repos
                /\ n.activity.first_seen > 0 => w.activity.first_seen \in 1 .. n.activity.first_seen
                /\ n.rates[1] >= 0 => w.rates[1] >= 0
                /\ {x.bot : x \in ProductBots(p, narrow)} \subseteq {x.bot : x \in ProductBots(p, wide)}
                /\ (wide > 0 \/ InView(p)) /\ p \in DOMAIN AllCharacteristics(narrow) =>
                     p \in DOMAIN AllCharacteristics(wide)
  <2> DEFINE w == Comparison(p, wide).summary
             n == Comparison(p, narrow).summary
  <2>1. wide \in Nat /\ narrow \in Nat
    BY <1>2
  <2>2. w = Summary(p, wide) /\ n = Summary(p, narrow)
    BY SummaryParts
  <2> HIDE DEF w, n
  <2>3. \A k \in Kinds : n.activity.total[k] <= w.activity.total[k]
    BY <1>2, <1>4, <2>1, <2>2, TotalsGrow
  <2>4. n.total_repos <= w.total_repos /\ n.total_orgs <= w.total_orgs
    BY <1>2, <1>4, <2>1, <2>2, PeaksGrow, SummaryParts
  <2>5. /\ n.activity.weeks_active <= w.activity.weeks_active
        /\ n.activity.first_seen > 0 => w.activity.first_seen \in 1 .. n.activity.first_seen
    BY <1>2, <1>4, <2>1, <2>2, WeeksGrow
  <2>6. \A b \in BotsWith(p) : BotSummary(b, narrow).total_repos <= n.total_repos
    BY <1>2, <2>2, BotsAreWithin
  <2>7. n.rates[1] >= 0 => w.rates[1] >= 0
    BY <1>2, <1>4, <2>1, <2>2, RatesStay
  <2>8. {x.bot : x \in ProductBots(p, narrow)} \subseteq {x.bot : x \in ProductBots(p, wide)}
    BY <1>2, <1>4, <2>1, BotsStay
  <2>9. (wide > 0 \/ InView(p)) /\ p \in DOMAIN AllCharacteristics(narrow) =>
          p \in DOMAIN AllCharacteristics(wide)
    BY <1>2, <1>4, <2>1, CharacteristicsStay
  <2> QED BY <2>3, <2>4, <2>5, <2>6, <2>7, <2>8, <2>9 DEF w, n
<1>5. WiderShowsMore
  BY <1>4 DEF WiderShowsMore
<1> QED BY <1>3, <1>5 DEF RangesBehave

-----------------------------------------------------------------------------
(* Totals along different paths *)

LEMMA SumsAdd ==
  ASSUME NEW S, Tabled(S), NEW T, Tabled(T), S \cap T = {}, NEW k \in Kinds
  PROVE  SumOf(S \cup T, k) = SumOf(S, k) + SumOf(T, k)
<1> DEFINE all == S \cup T
           f == [r \in all |-> r.n[k]]
<1>1. Tabled(all)
  BY FS_Union DEF Tabled
<1>2. \A r \in all : f[r] \in Nat
  BY <1>1 DEF Tabled
<1>3. SumOf(all, k) = SumFunctionOnSet(f, all)
  BY <1>1, SumsOf
<1>4. ASSUME NEW part \in SUBSET all, IsFiniteSet(part), Tabled(part)
      PROVE  SumOf(part, k) = SumFunctionOnSet(f, part)
  <2> DEFINE g == [r \in part |-> r.n[k]]
  <2>1. SumOf(part, k) = SumFunctionOnSet(g, part)
    BY <1>4, SumsOf
  <2>2. \A r \in part : g[r] \in Int /\ g[r] = f[r]
    BY <1>4 DEF Tabled
  <2> HIDE DEF f, g
  <2> QED BY <1>4, <2>1, <2>2, SumSame
<1>5. SumOf(S, k) = SumFunctionOnSet(f, S) /\ SumOf(T, k) = SumFunctionOnSet(f, T)
  <2>1. S \in SUBSET all /\ T \in SUBSET all /\ IsFiniteSet(S) /\ IsFiniteSet(T)
    BY DEF Tabled
  <2> HIDE DEF f, all
  <2> QED BY <1>4, <2>1
<1>6. SumFunctionOnSet(f, S \cup T) = SumFunctionOnSet(f, S) + SumFunctionOnSet(f, T)
  <2>1. IsFiniteSet(S) /\ IsFiniteSet(T) /\ \A r \in S \cup T : f[r] \in Int
    BY <1>2 DEF Tabled
  <2> HIDE DEF f
  <2> QED BY <2>1, SumDisjoint
<1> QED BY <1>3, <1>5, <1>6

LEMMA SumsGrouped ==
  ASSUME NEW rows, Tabled(rows), NEW K, IsFiniteSet(K), NEW key, \A r \in rows : key[r] \in K,
         NEW k \in Kinds, NEW h, DOMAIN h = K,
         \A x \in K : h[x] = SumOf({r \in rows : key[r] = x}, k)
  PROVE  SumOf(rows, k) = SumFunction(h)
<1> DEFINE f == [r \in rows |-> r.n[k]]
<1>1. SumOf(rows, k) = SumFunctionOnSet(f, rows) /\ IsFiniteSet(rows)
  BY SumsOf DEF Tabled
<1>2. \A r \in rows : f[r] \in Int
  BY DEF Tabled
<1>3. ASSUME NEW x \in K PROVE h[x] = SumFunctionOnSet(f, {r \in rows : key[r] = x})
  <2> DEFINE own == {r \in rows : key[r] = x}
             g == [r \in own |-> r.n[k]]
  <2>1. own \in SUBSET rows /\ IsFiniteSet(own) /\ Tabled(own)
    BY FS_Subset DEF Tabled
  <2>2. \A r \in own : g[r] \in Int /\ g[r] = f[r]
    BY DEF Tabled
  <2>3. h[x] = SumOf(own, k)
    OBVIOUS
  <2> HIDE DEF own
  <2>4. SumOf(own, k) = SumFunctionOnSet(g, own)
    BY <2>1, SumsOf
  <2> HIDE DEF f, g
  <2>5. SumFunctionOnSet(g, own) = SumFunctionOnSet(f, own)
    BY <2>1, <2>2, SumSame
  <2> QED BY <2>3, <2>4, <2>5 DEF own
<1> HIDE DEF f
<1>4. SumFunctionOnSet(h, K) = SumFunctionOnSet(f, rows)
  BY <1>1, <1>2, <1>3, SumGroups
<1> QED BY <1>1, <1>4, SumOfFunction

LEMMA NoRows ==
  ASSUME NEW k \in Kinds
  PROVE  SumOf({}, k) = 0 /\ Tabled({})
<1>1. SumOf({}, k) = SumFunction([r \in {} |-> r.n[k]])
  BY DEF SumOf
<1>2. DOMAIN [r \in {} |-> r.n[k]] = {}
  OBVIOUS
<1>3. Tabled({})
  BY FS_EmptySet DEF Tabled
<1> QED BY <1>1, <1>2, <1>3, SumOfFunction, SumEmpty

LEMMA BotsFinite ==
  ASSUME NEW p
  PROVE  IsFiniteSet(BotsWith(p)) /\ BotsWith(p) \in SUBSET Accounts
         /\ IsFiniteSet(ProductIds) /\ ProductIds = {Product[b] : b \in Accounts}
<1>1. IsFiniteSet(Accounts) /\ DOMAIN Product = Accounts
  BY ListingsAssumption
<1>2. ProductIds = {Product[b] : b \in Accounts}
  BY <1>1 DEF ProductIds, Range
<1>3. BotsWith(p) \in SUBSET Accounts
  BY DEF BotsWith
<1>4. IsFiniteSet(ProductIds)
  BY <1>1, <1>2, FiniteRange
<1>5. IsFiniteSet(BotsWith(p))
  BY <1>1, <1>3, FS_Subset
<1> QED BY <1>1, <1>2, <1>3, <1>4, <1>5

BotTotals(p, from, k) == [b \in BotsWith(p) |-> BotSummary(b, from).activity.total[k]]

\* A product's total is the sum of its bots'.
LEMMA TotalOfBots ==
  ASSUME HistoryOK(weekly), NEW p, NEW from, NEW k \in Kinds
  PROVE  Summary(p, from).activity.total[k] = SumFunction(BotTotals(p, from, k))
<1> DEFINE shown == Since(Of(Rows, p), from)
           K == BotsWith(p)
           key == [r \in shown |-> r.bot]
           h == [b \in K |-> BotSummary(b, from).activity.total[k]]
<1>1. Summary(p, from).activity.total[k] = SumOf(shown, k)
  BY SummaryParts, TotalOf
<1>2. Tabled(shown)
  BY RowsTabled, SummaryParts
<1>3. IsFiniteSet(K) /\ DOMAIN h = K
  BY BotsFinite
<1>4. \A r \in shown : key[r] \in K
  BY DEF Of, Since
<1>5. ASSUME NEW b \in K PROVE h[b] = SumOf({r \in shown : key[r] = b}, k)
  <2>1. {r \in shown : key[r] = b} = Since({r \in Rows : r.bot = b}, from)
    BY DEF Of, Since
  <2>2. BotSummary(b, from).activity = ActivityOf({r \in Rows : r.bot = b}, from)
    BY DEF BotSummary
  <2>3. BotSummary(b, from).activity.total = Total(Since({r \in Rows : r.bot = b}, from))
    BY <2>2, ActivityParts
  <2>4. h[b] = BotSummary(b, from).activity.total[k]
    OBVIOUS
  <2> QED BY <2>1, <2>3, <2>4, TotalOf
<1> HIDE DEF shown, K, key, h
<1>6. SumOf(shown, k) = SumFunction(h)
  BY <1>2, <1>3, <1>4, <1>5, SumsGrouped
<1> QED BY <1>1, <1>6 DEF h, K, BotTotals

\* The rows of the chart, and its weeks.
Drawn(p, from) == Since(Of(weekly.activity, p), from)

LEMMA ChartWeek ==
  ASSUME HistoryOK(weekly), NEW p, NEW from, NEW w \in DOMAIN Chart(p, from), NEW k \in Kinds
  PROVE  /\ Chart(p, from)[w][k] = SumOf({r \in Drawn(p, from) : r.week = w}, k)
         /\ Chart(p, from)[w][k] \in Nat
<1> DEFINE own == {r \in Drawn(p, from) : r.week = w}
<1>1. Chart(p, from)[w] = Total(own)
  BY DEF Chart, Drawn
<1>2. own \in SUBSET Drawn(p, from) /\ Drawn(p, from) \in SUBSET weekly.activity
  BY DEF Drawn, Since, Of
<1> HIDE DEF own
<1>3. Tabled(own)
  BY <1>2, RowsTabled, FS_Subset DEF Tabled
<1>4. SumOf(own, k) \in Nat
  BY <1>3, SumsOf
<1>5. Chart(p, from)[w][k] = SumOf(own, k)
  BY <1>1, TotalOf
<1> QED BY <1>4, <1>5 DEF own

LEMMA Charts ==
  ASSUME HistoryOK(weekly), NEW p, NEW from
  PROVE  /\ Tabled(Drawn(p, from)) /\ DOMAIN Chart(p, from) = Weeks(Drawn(p, from))
         /\ IsFiniteSet(DOMAIN Chart(p, from))
<1>1. Drawn(p, from) \in SUBSET weekly.activity
  BY DEF Drawn, Since, Of
<1>2. Tabled(Drawn(p, from))
  BY <1>1, RowsTabled, FS_Subset DEF Tabled
<1> QED BY <1>2, WeeksOf DEF Chart, Drawn

LEMMA ChartTotal ==
  ASSUME HistoryOK(weekly), NEW p, NEW from, NEW k \in Kinds
  PROVE  SumFunction([w \in DOMAIN Chart(p, from) |-> Chart(p, from)[w][k]]) = SumOf(Drawn(p, from), k)
<1> DEFINE rows == Drawn(p, from)
           K == DOMAIN Chart(p, from)
           h == [w \in K |-> Chart(p, from)[w][k]]
           key == [r \in rows |-> r.week]
<1>1. Tabled(rows) /\ IsFiniteSet(K) /\ DOMAIN h = K /\ K = Weeks(rows)
  BY Charts
<1>2. \A r \in rows : key[r] \in K
  BY <1>1 DEF Weeks
<1>3. ASSUME NEW x \in K PROVE h[x] = SumOf({r \in rows : key[r] = x}, k)
  <2>1. {r \in rows : key[r] = x} = {r \in rows : r.week = x}
    OBVIOUS
  <2>2. h[x] = SumOf({r \in rows : r.week = x}, k)
    BY ChartWeek
  <2> HIDE DEF rows, K, h, key
  <2> QED BY <2>1, <2>2
<1> HIDE DEF h, key, rows, K
<1>4. SumOf(rows, k) = SumFunction(h)
  BY <1>1, <1>2, <1>3, SumsGrouped
<1> QED BY <1>4 DEF h, K, rows

\* A PR a bot only reacted to counts as one review and as nothing else.
LEMMA AdoptedSums ==
  ASSUME HistoryOK(weekly), NEW R \in SUBSET weekly.reactions, NEW k \in Kinds
  PROVE  LET A == {Adopted(r) : r \in R} IN
         /\ Tabled(A) /\ A \in SUBSET Rows /\ weekly.activity \cap A = {}
         /\ SumOf(A, k) = IF k = "reviews" THEN SumFunction([r \in R |-> r.n]) ELSE 0
<1> DEFINE A == {Adopted(r) : r \in R}
           key == [r \in R |-> Adopted(r)]
           f == [r \in R |-> r.n]
           h == [x \in A |-> x.n[k]]
<1>1. A \in SUBSET Rows
  BY RowsTabled
<1>2. Tabled(A)
  BY <1>1, RowsTabled
<1>3. weekly.activity \cap A = {}
  <2>1. \A r \in weekly.activity : r.copy # 0
    BY DEF HistoryOK
  <2>2. \A r : Adopted(r).copy = 0
    BY DEF Adopted
  <2> QED BY <2>1, <2>2
<1>4. IsFiniteSet(R) /\ \A r \in R : r \in [bot: {q.bot : q \in weekly.reactions}, week: Nat \ {0}, n: Nat]
  BY FS_Subset DEF HistoryOK
<1>5. SumOf(A, k) = SumFunctionOnSet(h, A)
  BY <1>2, SumsOf
<1>6. \A r : /\ Adopted(r).bot = r.bot /\ Adopted(r).week = r.week
             /\ Adopted(r).n = [j \in Kinds |-> IF j = "reviews" THEN r.n ELSE 0]
  BY DEF Adopted
<1>7. CASE k = "reviews"
  <2>1. ASSUME NEW r \in R PROVE f[r] \in Int /\ h[key[r]] = f[r]
    <3>1. key[r] = Adopted(r) /\ Adopted(r) \in A /\ f[r] = r.n /\ r.n \in Nat
      BY <1>4
    <3>2. h[Adopted(r)] = Adopted(r).n[k]
      BY <3>1
    <3>3. Adopted(r).n = [j \in Kinds |-> IF j = "reviews" THEN r.n ELSE 0]
      BY <1>6
    <3>4. Adopted(r).n[k] = r.n
      BY <1>7, <3>3
    <3> QED BY <3>1, <3>2, <3>4
  <2>2. \A x, y \in R : key[x] = key[y] => x = y
    <3> SUFFICES ASSUME NEW x \in R, NEW y \in R, Adopted(x) = Adopted(y) PROVE x = y
      OBVIOUS
    <3>1. x.bot = y.bot /\ x.week = y.week
      BY <1>6
    <3>2. x.n = y.n
      <4>1. Adopted(x).n["reviews"] = x.n /\ Adopted(y).n["reviews"] = y.n
        BY <1>6, <1>7
      <4> QED BY <4>1
    <3>3. x \in [bot: {q.bot : q \in weekly.reactions}, week: Nat \ {0}, n: Nat]
          /\ y \in [bot: {q.bot : q \in weekly.reactions}, week: Nat \ {0}, n: Nat]
      BY <1>4
    <3> QED BY <3>1, <3>2, <3>3
  <2>3. A = {key[r] : r \in R} /\ DOMAIN f = R
    OBVIOUS
  <2> HIDE DEF A, key, f, h
  <2>4. SumFunctionOnSet(h, A) = SumFunctionOnSet(f, R)
    <3>1. \A r \in R : f[r] \in Int
      BY <2>1
    <3>2. \A r \in R : h[key[r]] = f[r]
      BY <2>1
    <3>3. IsFiniteSet(R) /\ A = {key[r] : r \in R}
      BY <1>4, <2>3
    <3> HIDE <1>4
    <3> QED BY <2>2, <3>1, <3>2, <3>3, SumRenamed
  <2>5. SumOf(A, k) = SumFunction(f)
    BY <1>5, <2>3, <2>4, SumOfFunction
  <2> QED BY <1>1, <1>2, <1>3, <1>7, <2>5 DEF A, f
<1>8. CASE k # "reviews"
  <2>1. \A x \in A : h[x] = 0
    <3> SUFFICES ASSUME NEW r \in R PROVE Adopted(r).n[k] = 0
      OBVIOUS
    <3>1. Adopted(r).n = [j \in Kinds |-> IF j = "reviews" THEN r.n ELSE 0]
      BY <1>6
    <3> QED BY <1>8, <3>1
  <2>2. IsFiniteSet(A)
    BY <1>2 DEF Tabled
  <2> HIDE DEF A, h
  <2>3. SumFunctionOnSet(h, A) = 0
    BY <2>1, <2>2, SumZero
  <2> QED BY <1>1, <1>2, <1>3, <1>5, <1>8, <2>3 DEF A
<1> QED BY <1>7, <1>8

\* A product's total is the sum of its chart, and the PRs only reacted to.
LEMMA TotalOfChart ==
  ASSUME HistoryOK(weekly), NEW p, NEW from, NEW k \in Kinds
  PROVE  Summary(p, from).activity.total[k]
           = SumFunction([w \in DOMAIN Chart(p, from) |-> Chart(p, from)[w][k]])
               + (IF k = "reviews"
                  THEN SumFunction([r \in Since(Of(weekly.reactions, p), from) |-> r.n])
                  ELSE 0)
<1> DEFINE shown == Since(Of(Rows, p), from)
           R == Since(Of(weekly.reactions, p), from)
           A == {Adopted(r) : r \in R}
           D == Drawn(p, from)
<1>1. Summary(p, from).activity.total[k] = SumOf(shown, k)
  BY SummaryParts, TotalOf
<1>2. R \in SUBSET weekly.reactions /\ D \in SUBSET weekly.activity
  BY DEF Since, Of, Drawn
<1>3. shown = D \cup A
  <2>1. Rows = weekly.activity \cup {Adopted(r) : r \in weekly.reactions}
    BY RowsTabled
  <2>2. \A r : Adopted(r).bot = r.bot /\ Adopted(r).week = r.week
    BY DEF Adopted
  <2> HIDE DEF Adopted
  <2>3. \A x \in shown : x \in D \/ x \in A
    <3> SUFFICES ASSUME NEW x \in Rows, x \in shown, x \notin weekly.activity PROVE x \in A
      BY DEF Drawn, Since, Of
    <3>1. PICK r \in weekly.reactions : x = Adopted(r)
      BY <2>1
    <3>2. r \in R
      BY <2>2, <3>1 DEF Since, Of
    <3> QED BY <3>1, <3>2
  <2>4. D \subseteq shown
    BY <2>1 DEF Drawn, Since, Of
  <2>5. A \subseteq shown
    <3> SUFFICES ASSUME NEW r \in R PROVE Adopted(r) \in shown
      OBVIOUS
    <3>1. Adopted(r) \in Rows
      BY <1>2, <2>1
    <3> QED BY <2>2, <3>1 DEF Since, Of
  <2> QED BY <2>3, <2>4, <2>5
<1>4. /\ Tabled(A) /\ weekly.activity \cap A = {}
      /\ SumOf(A, k) = IF k = "reviews" THEN SumFunction([r \in R |-> r.n]) ELSE 0
  <2> HIDE DEF R
  <2> QED BY <1>2, AdoptedSums
<1>5. Tabled(D) /\ SumFunction([w \in DOMAIN Chart(p, from) |-> Chart(p, from)[w][k]]) = SumOf(D, k)
  BY Charts, ChartTotal
<1>6. D \cap A = {}
  BY <1>2, <1>4
<1> HIDE DEF D, A, shown
<1>7. SumOf(shown, k) = SumOf(D, k) + SumOf(A, k)
  BY <1>3, <1>4, <1>5, <1>6, SumsAdd
<1> QED BY <1>1, <1>4, <1>5, <1>7

\* The bots listed on a product's page have all of its reviews.
LEMMA TotalOfListed ==
  ASSUME HistoryOK(weekly), NEW p, NEW from
  PROVE  Summary(p, from).activity.total["reviews"]
           = SumFunction([x \in ProductBots(p, from) |-> x.total["reviews"]])
<1> DEFINE total(b) == Total(Since({r \in Rows : r.bot = b}, from))
           K == BotsWith(p)
           B == {b \in K : total(b)["reviews"] > 0}
           g == [b \in K |-> BotSummary(b, from).activity.total["reviews"]]
           row(b) == [bot |-> b, total |-> total(b)]
           key == [b \in B |-> row(b)]
           f == [b \in B |-> total(b)["reviews"]]
           h == [x \in ProductBots(p, from) |-> x.total["reviews"]]
<1>1. Summary(p, from).activity.total["reviews"] = SumFunction(g)
  <2>1. "reviews" \in Kinds
    BY DEF Kinds
  <2>2. Summary(p, from).activity.total["reviews"] = SumFunction(BotTotals(p, from, "reviews"))
    BY <2>1, TotalOfBots
  <2> QED BY <2>2 DEF BotTotals
<1>2. \A b : total(b)["reviews"] \in Nat
  <2> SUFFICES ASSUME NEW b PROVE total(b)["reviews"] \in Nat
    OBVIOUS
  <2>1. Since({r \in Rows : r.bot = b}, from) \in SUBSET Rows /\ "reviews" \in Kinds
    BY DEF Since, Kinds
  <2> QED BY <2>1, RowsTabled, SumsOf, TotalOf
<1>3. \A b \in K : g[b] = total(b)["reviews"]
  <2> SUFFICES ASSUME NEW b \in K PROVE BotSummary(b, from).activity.total = total(b)
    OBVIOUS
  <2>1. BotSummary(b, from).activity = ActivityOf({r \in Rows : r.bot = b}, from)
    BY DEF BotSummary
  <2> QED BY <2>1, ActivityParts
<1>4. IsFiniteSet(K) /\ DOMAIN g = K /\ B \in SUBSET K
  BY BotsFinite
<1>5. IsFiniteSet(B)
  BY <1>4, FS_Subset
<1>6. ProductBots(p, from) = {row(b) : b \in B}
  BY DEF ProductBots
<1>7. \A b : row(b).bot = b /\ row(b).total = total(b)
  OBVIOUS
<1> HIDE DEF total
<1>8. /\ ProductBots(p, from) = {key[b] : b \in B}
      /\ \A x, y \in B : key[x] = key[y] => x = y
      /\ \A b \in B : h[key[b]] = f[b] /\ f[b] \in Int
      /\ DOMAIN h = ProductBots(p, from)
  <2>1. ProductBots(p, from) = {key[b] : b \in B}
    BY <1>6
  <2>2. \A b \in B : key[b] = row(b) /\ row(b) \in ProductBots(p, from)
    BY <1>6
  <2> HIDE DEF row
  <2>3. \A x, y \in B : key[x] = key[y] => x = y
    BY <1>7, <2>2
  <2>4. ASSUME NEW b \in B PROVE h[key[b]] = f[b] /\ f[b] \in Int
    <3>1. h[row(b)] = row(b).total["reviews"]
      BY <2>2
    <3>2. f[b] = total(b)["reviews"]
      OBVIOUS
    <3> QED BY <1>2, <1>7, <2>2, <3>1, <3>2
  <2> QED BY <2>1, <2>3, <2>4
<1>9. /\ \A b \in K : g[b] \in Int
      /\ \A b \in K \ B : g[b] = 0
      /\ \A b \in B : g[b] \in Int /\ g[b] = f[b]
  <2> HIDE DEF g, K
  <2>1. \A b \in B : f[b] = total(b)["reviews"] /\ b \in K
    OBVIOUS
  <2>2. \A b \in K \ B : ~(total(b)["reviews"] > 0)
    OBVIOUS
  <2> HIDE DEF B, f
  <2> QED BY <1>2, <1>3, <2>1, <2>2
<1> HIDE DEF K, B, g, key, f, h, row
<1>10. SumFunctionOnSet(g, K) = SumFunctionOnSet(g, B)
  BY <1>4, <1>9, SumNonzero
<1>11. SumFunctionOnSet(g, B) = SumFunctionOnSet(f, B)
  BY <1>5, <1>9, SumSame
<1>12. SumFunctionOnSet(h, ProductBots(p, from)) = SumFunctionOnSet(f, B)
  <2>1. \A b \in B : f[b] \in Int
    BY <1>8
  <2>2. \A b \in B : h[key[b]] = f[b]
    BY <1>8
  <2>3. \A x, y \in B : key[x] = key[y] => x = y
    BY <1>8
  <2>4. ProductBots(p, from) = {key[b] : b \in B}
    BY <1>8
  <2> QED BY <1>5, <2>1, <2>2, <2>3, <2>4, SumRenamed
<1> QED BY <1>1, <1>4, <1>8, <1>10, <1>11, <1>12, SumOfFunction DEF h

\* The trend chart has every review of the charts.
LEMMA TrendTotals ==
  ASSUME HistoryOK(weekly), NEW p \in ProductIds, NEW from
  PROVE  LET chart == Chart(p, from)
             trend == TrendData(ProductIds, from)
         IN SumFunction([w \in DOMAIN chart |-> chart[w]["reviews"]])
              = SumFunction([w \in DOMAIN trend |-> trend[w][p].reviews])
<1> DEFINE chart == Chart(p, from)
           trend == TrendData(ProductIds, from)
           Points(q) == DOMAIN Chart(q, from) \cup Weeks(Since(Of(weekly.stats, q), from))
           D == UNION {Points(q) : q \in ProductIds}
           f == [w \in DOMAIN chart |-> chart[w]["reviews"]]
           h == [w \in DOMAIN trend |-> trend[w][p].reviews]
<1>1. DOMAIN trend = D
  BY DEF TrendData
<1>2. \A w \in D : trend[w][p].reviews = IF w \in DOMAIN chart THEN chart[w]["reviews"] ELSE 0
  BY DEF TrendData
<1>3. DOMAIN chart \subseteq D /\ IsFiniteSet(DOMAIN chart)
      /\ \A w \in DOMAIN chart : chart[w]["reviews"] \in Nat
  <2>1. DOMAIN chart \subseteq Points(p)
    OBVIOUS
  <2>2. DOMAIN chart \subseteq D
    <3> HIDE DEF Points, chart
    <3> QED BY <2>1
  <2>3. "reviews" \in Kinds
    BY DEF Kinds
  <2>4. IsFiniteSet(DOMAIN chart) /\ \A w \in DOMAIN chart : chart[w]["reviews"] \in Nat
    BY <2>3, Charts, ChartWeek
  <2> QED BY <2>2, <2>4
<1>4. IsFiniteSet(D)
  <2>1. ASSUME NEW q PROVE IsFiniteSet(Points(q))
    <3> DEFINE S == Since(Of(weekly.stats, q), from)
               g == [s \in S |-> s.week]
    <3>1. S \in SUBSET weekly.stats /\ IsFiniteSet(weekly.stats)
      BY DEF Since, Of, HistoryOK
    <3>2. IsFiniteSet(S)
      BY <3>1, FS_Subset
    <3>3. Weeks(S) = {g[s] : s \in S}
      BY DEF Weeks
    <3> HIDE DEF S, g
    <3>4. IsFiniteSet(Weeks(S))
      BY <3>2, <3>3, FiniteRange
    <3>5. IsFiniteSet(DOMAIN Chart(q, from))
      BY Charts
    <3> QED BY <3>4, <3>5, FS_Union DEF S
  <2> DEFINE part == [q \in ProductIds |-> Points(q)]
  <2>2. \A q \in ProductIds : IsFiniteSet(part[q])
    <3> HIDE DEF Points
    <3> QED BY <2>1
  <2>3. D = UNION {part[q] : q \in ProductIds}
    <3> HIDE DEF Points
    <3> QED OBVIOUS
  <2>4. IsFiniteSet(ProductIds)
    BY BotsFinite
  <2> HIDE DEF D, part
  <2>5. IsFiniteSet(UNION {part[q] : q \in ProductIds})
    BY <2>2, <2>4, FiniteUnion
  <2> QED BY <2>3, <2>5
<1>5. /\ DOMAIN f = DOMAIN chart /\ DOMAIN h = D
      /\ \A w \in D : h[w] = IF w \in DOMAIN chart THEN chart[w]["reviews"] ELSE 0
  BY <1>1, <1>2
<1>6. /\ \A w \in D : h[w] \in Int
      /\ \A w \in D \ DOMAIN chart : h[w] = 0
      /\ \A w \in DOMAIN chart : f[w] \in Int /\ f[w] = h[w]
  <2> HIDE DEF D, h, chart
  <2> QED BY <1>3, <1>5
<1> HIDE DEF D, f, h, chart
<1>7. SumFunctionOnSet(h, D) = SumFunctionOnSet(h, DOMAIN chart)
  BY <1>3, <1>4, <1>6, SumNonzero
<1>8. SumFunctionOnSet(f, DOMAIN chart) = SumFunctionOnSet(h, DOMAIN chart)
  BY <1>3, <1>6, SumSame
<1> QED BY <1>5, <1>7, <1>8, SumOfFunction DEF f, h, chart

\* The volume of a week is that of the products and of what is not listed.
LEMMA VolumeSplits ==
  ASSUME HistoryOK(weekly), NEW from, NEW w \in DOMAIN WeeklyTotals(from), NEW k \in Kinds
  PROVE  WeeklyTotals(from)[w].bots[k] =
           SumOf({r \in weekly.activity : r.week = w /\ r.bot \notin Accounts}, k)
             + SumFunction([p \in ProductIds |->
                              IF w \in DOMAIN Chart(p, 0) THEN Chart(p, 0)[w][k] ELSE 0])
<1> DEFINE all == {r \in weekly.activity : r.week = w}
           stray == {r \in weekly.activity : r.week = w /\ r.bot \notin Accounts}
           listed == {r \in all : r.bot \in Accounts}
           key == [r \in listed |-> Product[r.bot]]
           h == [p \in ProductIds |-> IF w \in DOMAIN Chart(p, 0) THEN Chart(p, 0)[w][k] ELSE 0]
<1>1. /\ all \in SUBSET weekly.activity /\ stray \in SUBSET weekly.activity
      /\ listed \in SUBSET weekly.activity /\ all = stray \cup listed /\ stray \cap listed = {}
  OBVIOUS
<1>2. ASSUME NEW S \in SUBSET weekly.activity PROVE Tabled(S)
  BY RowsTabled, FS_Subset DEF Tabled
<1>3. WeeklyTotals(from)[w].bots[k] = SumOf(all, k)
  <2>1. WeeklyTotals(from)[w].bots = IF w \in DOMAIN Volume THEN Volume[w] ELSE Total({})
    BY DEF WeeklyTotals
  <2>2. CASE w \in DOMAIN Volume
    <3>1. Volume[w] = Total(all)
      BY <2>2 DEF Volume
    <3> QED BY <2>1, <2>2, <3>1, TotalOf
  <2>3. CASE w \notin DOMAIN Volume
    <3>1. all = {}
      BY <2>3 DEF Volume, Weeks
    <3> QED BY <2>1, <2>3, <3>1, TotalOf
  <2> QED BY <2>2, <2>3
<1>4. SumOf(all, k) = SumOf(stray, k) + SumOf(listed, k)
  <2> HIDE DEF all, stray, listed
  <2> QED BY <1>1, <1>2, SumsAdd
<1>5. IsFiniteSet(ProductIds) /\ DOMAIN h = ProductIds /\ \A b \in Accounts : Product[b] \in ProductIds
  <2>1. IsFiniteSet(ProductIds) /\ ProductIds = {Product[b] : b \in Accounts}
    BY BotsFinite
  <2> QED BY <2>1
<1>6. \A r \in listed : key[r] \in ProductIds
  BY <1>5
<1>7. ASSUME NEW p \in ProductIds PROVE h[p] = SumOf({r \in listed : key[r] = p}, k)
  <2> DEFINE own == {r \in Drawn(p, 0) : r.week = w}
  <2>1. {r \in listed : key[r] = p} = own
    <3>1. \A r \in weekly.activity : r.week >= 0
      BY DEF HistoryOK
    <3> QED BY <3>1 DEF Drawn, Since, Of, BotsWith
  <2>2. h[p] = IF w \in DOMAIN Chart(p, 0) THEN Chart(p, 0)[w][k] ELSE 0
    OBVIOUS
  <2>3. CASE w \in DOMAIN Chart(p, 0)
    <3>1. Chart(p, 0)[w][k] = SumOf(own, k)
      BY <2>3, ChartWeek
    <3> QED BY <2>1, <2>2, <2>3, <3>1
  <2>4. CASE w \notin DOMAIN Chart(p, 0)
    <3>1. w \notin Weeks(Drawn(p, 0))
      BY <2>4, Charts
    <3>2. own = {}
      BY <3>1 DEF Weeks
    <3> QED BY <2>1, <2>2, <2>4, <3>2, NoRows
  <2> QED BY <2>3, <2>4
<1>8. Tabled(listed)
  BY <1>1, <1>2
<1> HIDE DEF all, stray, listed, key, h
<1>9. SumOf(listed, k) = SumFunction(h)
  BY <1>5, <1>6, <1>7, <1>8, SumsGrouped
<1> QED BY <1>3, <1>4, <1>9 DEF stray, h

\* Votes and comments of some rows, as sums of one function.
UpVotes == [s \in weekly.stats |-> s.up]
DownVotes == [s \in weekly.stats |-> s.down]

LEMMA VotesAreSums ==
  ASSUME HistoryOK(weekly), NEW T \in SUBSET weekly.stats
  PROVE  Ups(T) = SumFunctionOnSet(UpVotes, T) /\ Downs(T) = SumFunctionOnSet(DownVotes, T) /\ IsFiniteSet(T)
<1> DEFINE f == [s \in T |-> s.up]
           g == [s \in T |-> s.down]
<1>1. IsFiniteSet(T)
  BY FS_Subset DEF HistoryOK
<1>2. \A s \in T : f[s] \in Int /\ f[s] = UpVotes[s]
  BY DEF UpVotes, HistoryOK
<1>3. \A s \in T : g[s] \in Int /\ g[s] = DownVotes[s]
  BY DEF DownVotes, HistoryOK
<1>4. Ups(T) = SumFunction(f) /\ DOMAIN f = T
  BY DEF Ups
<1>5. Downs(T) = SumFunction(g) /\ DOMAIN g = T
  BY DEF Downs
<1> HIDE DEF f, g
<1>6. SumFunctionOnSet(f, T) = SumFunctionOnSet(UpVotes, T)
  BY <1>1, <1>2, SumSame
<1>7. SumFunctionOnSet(g, T) = SumFunctionOnSet(DownVotes, T)
  BY <1>1, <1>3, SumSame
<1> QED BY <1>1, <1>4, <1>5, <1>6, <1>7, SumOfFunction

\* Votes can be counted group by group.
LEMMA VotesGrouped ==
  ASSUME HistoryOK(weekly), NEW T \in SUBSET weekly.stats, NEW K, IsFiniteSet(K),
         NEW key, \A s \in T : key[s] \in K, NEW f, DOMAIN f = K, NEW g, DOMAIN g = K,
         \A x \in K : f[x] = Ups({s \in T : key[s] = x}),
         \A x \in K : g[x] = Downs({s \in T : key[s] = x})
  PROVE  Ups(T) = SumFunction(f) /\ Downs(T) = SumFunction(g)
<1>1. IsFiniteSet(T) /\ Ups(T) = SumFunctionOnSet(UpVotes, T) /\ Downs(T) = SumFunctionOnSet(DownVotes, T)
  BY VotesAreSums
<1>2. ASSUME NEW x \in K
      PROVE  /\ f[x] = SumFunctionOnSet(UpVotes, {s \in T : key[s] = x})
             /\ g[x] = SumFunctionOnSet(DownVotes, {s \in T : key[s] = x})
  <2> DEFINE own == {s \in T : key[s] = x}
  <2>1. own \in SUBSET weekly.stats /\ f[x] = Ups(own) /\ g[x] = Downs(own)
    OBVIOUS
  <2> HIDE DEF own
  <2>2. f[x] = SumFunctionOnSet(UpVotes, own) /\ g[x] = SumFunctionOnSet(DownVotes, own)
    BY <2>1, VotesAreSums
  <2> QED BY <2>2 DEF own
<1>3. \A s \in T : UpVotes[s] \in Int
  BY DEF UpVotes, HistoryOK
<1>4. \A s \in T : DownVotes[s] \in Int
  BY DEF DownVotes, HistoryOK
<1>5. SumFunctionOnSet(f, K) = SumFunctionOnSet(UpVotes, T)
  <2>1. \A x \in K : f[x] = SumFunctionOnSet(UpVotes, {s \in T : key[s] = x})
    BY <1>2
  <2> QED BY <1>1, <1>3, <2>1, SumGroups
<1>6. SumFunctionOnSet(g, K) = SumFunctionOnSet(DownVotes, T)
  <2>1. \A x \in K : g[x] = SumFunctionOnSet(DownVotes, {s \in T : key[s] = x})
    BY <1>2
  <2> QED BY <1>1, <1>4, <2>1, SumGroups
<1> QED BY <1>1, <1>5, <1>6, SumOfFunction

\* In the leaderboard and in the rankings.
LEMMA LeaderVotes ==
  ASSUME HistoryOK(weekly), NEW p, NEW from
  PROVE  LET K == BotsWith(p) \cap DOMAIN Leaderboard(from) IN
         /\ Summary(p, from).votes[1] = SumFunction([b \in K |-> Leaderboard(from)[b][1]])
         /\ Summary(p, from).votes[2] = SumFunction([b \in K |-> Leaderboard(from)[b][2]])
<1> DEFINE T == Since(Of(weekly.stats, p), from)
           all == {s \in Since(weekly.stats, from) : s.bot \in Accounts}
           leaders == Leaderboard(from)
           K == BotsWith(p) \cap DOMAIN leaders
           key == [s \in T |-> s.bot]
           f == [b \in K |-> leaders[b][1]]
           g == [b \in K |-> leaders[b][2]]
<1>1. DOMAIN leaders = {s.bot : s \in all}
  BY DEF Leaderboard
<1>2. ASSUME NEW b \in K
      PROVE  /\ leaders[b][1] = Ups({s \in T : key[s] = b})
             /\ leaders[b][2] = Downs({s \in T : key[s] = b})
  <2> DEFINE own == {s \in all : s.bot = b}
  <2>1. leaders[b] = <<Ups(own), Downs(own), Comments(own), Rates(own)>>
    <3>1. b \in {s.bot : s \in all}
      BY <1>1
    <3> QED BY <3>1 DEF Leaderboard
  <2>2. own = {s \in T : key[s] = b}
    BY DEF Since, Of, BotsWith
  <2>3. leaders[b][1] = Ups(own) /\ leaders[b][2] = Downs(own)
    BY <2>1
  <2> QED BY <2>2, <2>3
<1>3. T \in SUBSET weekly.stats /\ \A s \in T : key[s] \in K
  BY <1>1 DEF Since, Of, BotsWith
<1>4. IsFiniteSet(K)
  <2>1. K \in SUBSET BotsWith(p)
    OBVIOUS
  <2> QED BY <2>1, BotsFinite, FS_Subset
<1>5. Summary(p, from).votes = <<Ups(T), Downs(T)>>
  BY SummaryParts
<1>6. DOMAIN f = K /\ DOMAIN g = K
  OBVIOUS
<1>7. \A x \in K : f[x] = Ups({s \in T : key[s] = x})
  <2> SUFFICES ASSUME NEW x \in K PROVE f[x] = Ups({s \in T : key[s] = x})
    OBVIOUS
  <2>1. f[x] = leaders[x][1]
    OBVIOUS
  <2> HIDE DEF f, leaders, K, T, key
  <2> QED BY <1>2, <2>1
<1>8. \A x \in K : g[x] = Downs({s \in T : key[s] = x})
  <2> SUFFICES ASSUME NEW x \in K PROVE g[x] = Downs({s \in T : key[s] = x})
    OBVIOUS
  <2>1. g[x] = leaders[x][2]
    OBVIOUS
  <2> HIDE DEF g, leaders, K, T, key
  <2> QED BY <1>2, <2>1
<1> HIDE DEF T, K, key, f, g
<1>9. Ups(T) = SumFunction(f) /\ Downs(T) = SumFunction(g)
  <2>1. \A s \in T : key[s] \in K
    BY <1>3
  <2>2. T \in SUBSET weekly.stats /\ DOMAIN f = K /\ DOMAIN g = K
    BY <1>3, <1>6
  <2> QED BY <1>4, <1>7, <1>8, <2>1, <2>2, VotesGrouped
<1>10. Summary(p, from).votes[1] = SumFunction(f)
  BY <1>5, <1>9
<1>11. Summary(p, from).votes[2] = SumFunction(g)
  BY <1>5, <1>9
<1> QED BY <1>10, <1>11, Zenon DEF f, g, K

\* And in the weeks of a chart.
LEMMA WeekVotes ==
  ASSUME HistoryOK(weekly), IsFiniteSet(WeekNumbers), NEW p, NEW from
  PROVE  /\ Summary(p, from).votes[1]
              = SumFunction([w \in WeekNumbers |-> WeeklyReactions(p, {w}, from).votes[1]])
         /\ Summary(p, from).votes[2]
              = SumFunction([w \in WeekNumbers |-> WeeklyReactions(p, {w}, from).votes[2]])
<1> DEFINE T == Since(Of(weekly.stats, p), from)
           key == [s \in T |-> s.week]
           f == [w \in WeekNumbers |-> WeeklyReactions(p, {w}, from).votes[1]]
           g == [w \in WeekNumbers |-> WeeklyReactions(p, {w}, from).votes[2]]
<1>1. T \in SUBSET weekly.stats
  BY DEF Since, Of
<1>2. \A s \in T : key[s] \in WeekNumbers
  BY DEF Since, Of, HistoryOK
<1>3. ASSUME NEW w \in WeekNumbers
      PROVE  f[w] = Ups({s \in T : key[s] = w}) /\ g[w] = Downs({s \in T : key[s] = w})
  <2> DEFINE own == {s \in T : s.week \in {w}}
  <2>1. own = {s \in T : key[s] = w}
    OBVIOUS
  <2>2. WeeklyReactions(p, {w}, from).votes = <<Ups(own), Downs(own)>>
    BY DEF WeeklyReactions
  <2>3. /\ f[w] = WeeklyReactions(p, {w}, from).votes[1]
        /\ g[w] = WeeklyReactions(p, {w}, from).votes[2]
    OBVIOUS
  <2> HIDE DEF f, g, own
  <2>4. /\ WeeklyReactions(p, {w}, from).votes[1] = Ups(own)
        /\ WeeklyReactions(p, {w}, from).votes[2] = Downs(own)
    BY <2>2
  <2> QED BY <2>1, <2>3, <2>4
<1>4. DOMAIN f = WeekNumbers /\ DOMAIN g = WeekNumbers
  OBVIOUS
<1>5. Summary(p, from).votes = <<Ups(T), Downs(T)>>
  BY SummaryParts
<1> HIDE DEF T, key, f, g
<1>6. Ups(T) = SumFunction(f) /\ Downs(T) = SumFunction(g)
  <2>1. \A w \in WeekNumbers : f[w] = Ups({s \in T : key[s] = w})
    BY <1>3
  <2>2. \A w \in WeekNumbers : g[w] = Downs({s \in T : key[s] = w})
    BY <1>3
  <2> QED BY <1>1, <1>2, <1>4, <2>1, <2>2, VotesGrouped
<1>7. Summary(p, from).votes[1] = SumFunction(f)
  BY <1>5, <1>6
<1>8. Summary(p, from).votes[2] = SumFunction(g)
  BY <1>5, <1>6
<1> QED BY <1>7, <1>8, Zenon DEF f, g

\* The PRs of some rows of comments.
CommentedOn(stats) == UNION {s.prs : s \in stats}

\* PRs with comments: as many as any grouping of the rows has together, or fewer.
LEMMA PRsGrouped ==
  ASSUME HistoryOK(weekly), NEW T \in SUBSET weekly.stats, NEW K, IsFiniteSet(K),
         NEW key, \A s \in T : key[s] \in K, NEW f, DOMAIN f = K,
         \A x \in K : f[x] = Cardinality(CommentedOn({q \in T : key[q] = x}))
  PROVE  Cardinality(CommentedOn(T)) <= SumFunction(f)
<1> DEFINE own(x) == {q \in T : key[q] = x}
<1>0. PICK part : \A x \in K : part[x] = CommentedOn(own(x))
  <2>1. \A x \in K : [y \in K |-> CommentedOn(own(y))][x] = CommentedOn(own(x))
    OBVIOUS
  <2> QED BY <2>1
<1>1. ASSUME NEW x \in K PROVE IsFiniteSet(part[x]) /\ f[x] = Cardinality(part[x])
  <2> DEFINE S == own(x)
             g == [s \in S |-> s.prs]
  <2>1. S \in SUBSET weekly.stats /\ IsFiniteSet(weekly.stats)
    BY DEF HistoryOK
  <2>2. IsFiniteSet(S) /\ \A s \in S : g[s] = s.prs
    BY <2>1, FS_Subset
  <2>3. \A s \in S : IsFiniteSet(s.prs)
    BY <2>1 DEF HistoryOK
  <2>4. part[x] = CommentedOn(S)
    BY <1>0
  <2>5. f[x] = Cardinality(CommentedOn(S))
    OBVIOUS
  <2>6. CommentedOn(S) = UNION {g[s] : s \in S}
    BY DEF CommentedOn
  <2> HIDE DEF S, g
  <2>7. IsFiniteSet(UNION {g[s] : s \in S})
    BY <2>2, <2>3, FiniteUnion
  <2> QED BY <2>4, <2>5, <2>6, <2>7
<1>2. \A pr \in CommentedOn(T) : \E x \in K : pr \in part[x]
  BY <1>0 DEF CommentedOn
<1> HIDE DEF own
<1>3. Cardinality(CommentedOn(T)) <= SumFunctionOnSet(f, K)
  <2>1. \A x \in K : IsFiniteSet(part[x])
    BY <1>1
  <2>2. \A x \in K : f[x] = Cardinality(part[x])
    BY <1>1
  <2> QED BY <1>2, <2>1, <2>2, CountCover
<1>4. SumFunction(f) = SumFunctionOnSet(f, K)
  BY SumOfFunction
<1> QED BY <1>3, <1>4

LEMMA CommentedPRs ==
  ASSUME HistoryOK(weekly), IsFiniteSet(WeekNumbers), NEW p, NEW from
  PROVE  /\ CommentsPerPR(BotsWith(p), from).prs
              <= SumFunction([b \in BotsWith(p) |-> CommentsPerPR({b}, from).prs])
         /\ CommentsPerPR(BotsWith(p), from).prs
              <= SumFunction([w \in WeekNumbers |-> WeeklyReactions(p, {w}, from).prs])
<1> DEFINE T == {s \in Since(weekly.stats, from) : s.bot \in BotsWith(p)}
<1>1. T \in SUBSET weekly.stats /\ T = Since(Of(weekly.stats, p), from)
  BY DEF Since, Of
<1>2. CommentsPerPR(BotsWith(p), from).prs = Cardinality(CommentedOn(T))
  BY DEF CommentsPerPR, CommentedOn
<1>3. Cardinality(CommentedOn(T)) <= SumFunction([b \in BotsWith(p) |-> CommentsPerPR({b}, from).prs])
  <2> DEFINE K == BotsWith(p)
             key == [s \in T |-> s.bot]
             f == [b \in K |-> CommentsPerPR({b}, from).prs]
  <2>1. IsFiniteSet(K)
    BY BotsFinite
  <2>2. (\A s \in T : key[s] \in K) /\ DOMAIN f = K
    OBVIOUS
  <2>3. ASSUME NEW b \in K
        PROVE  f[b] = Cardinality(CommentedOn({q \in T : key[q] = b}))
    <3> DEFINE own == {s \in Since(weekly.stats, from) : s.bot \in {b}}
    <3>1. f[b] = CommentsPerPR({b}, from).prs
      OBVIOUS
    <3>2. CommentsPerPR({b}, from).prs = Cardinality(CommentedOn(own))
      BY DEF CommentsPerPR, CommentedOn
    <3>3. own = {q \in T : key[q] = b}
      OBVIOUS
    <3> HIDE DEF f, own
    <3> QED BY <3>1, <3>2, <3>3
  <2> HIDE DEF T, K, key, f
  <2>4. Cardinality(CommentedOn(T)) <= SumFunction(f)
    <3>1. \A s \in T : key[s] \in K
      BY <2>2
    <3>2. T \in SUBSET weekly.stats /\ DOMAIN f = K
      BY <1>1, <2>2
    <3>3. \A b \in K : f[b] = Cardinality(CommentedOn({q \in T : key[q] = b}))
      BY <2>3
    <3> QED BY <2>1, <3>1, <3>2, <3>3, PRsGrouped
  <2> QED BY <2>4 DEF f, K
<1>4. Cardinality(CommentedOn(T))
        <= SumFunction([w \in WeekNumbers |-> WeeklyReactions(p, {w}, from).prs])
  <2> DEFINE key == [s \in T |-> s.week]
             f == [w \in WeekNumbers |-> WeeklyReactions(p, {w}, from).prs]
  <2>1. (\A s \in T : key[s] \in WeekNumbers) /\ DOMAIN f = WeekNumbers
    BY DEF Since, HistoryOK
  <2>2. ASSUME NEW w \in WeekNumbers
        PROVE  f[w] = Cardinality(CommentedOn({q \in T : key[q] = w}))
    <3> DEFINE own == {s \in Since(Of(weekly.stats, p), from) : s.week \in {w}}
    <3>1. f[w] = WeeklyReactions(p, {w}, from).prs
      OBVIOUS
    <3>2. WeeklyReactions(p, {w}, from).prs = Cardinality(CommentedOn(own))
      BY DEF WeeklyReactions, CommentedOn
    <3>3. own = {q \in T : key[q] = w}
      BY <1>1
    <3> HIDE DEF f, own
    <3> QED BY <3>1, <3>2, <3>3
  <2> HIDE DEF T, key, f
  <2>3. Cardinality(CommentedOn(T)) <= SumFunction(f)
    <3>1. \A s \in T : key[s] \in WeekNumbers
      BY <2>1
    <3>2. T \in SUBSET weekly.stats /\ DOMAIN f = WeekNumbers
      BY <1>1, <2>1
    <3>3. \A w \in WeekNumbers : f[w] = Cardinality(CommentedOn({q \in T : key[q] = w}))
      BY <2>2
    <3> QED BY <3>1, <3>2, <3>3, PRsGrouped
  <2> QED BY <2>3 DEF f
<1> HIDE DEF T
<1> QED BY <1>2, <1>3, <1>4

\* The languages of a bot's PRs from either table.
LEMMA LanguagesAgree ==
  ASSUME HistoryOK(weekly), IsFiniteSet(Repositories), NEW b, NEW l
  PROVE  LanguagePRs(b, l, 0) = LanguagePRs(b, l, 1)
<1> DEFINE S == PRsOfLanguage(b, l, 0)
           of(r) == {pr \in S : pr[1] = r}
           key == [pr \in S |-> pr[1]]
           h == [r \in Repositories |-> Cardinality({pr[2] : pr \in of(r)})]
<1>1. PRsOfLanguage(b, l, 1) = S
  <2>1. \A e \in weekly.events : e.week >= 0 /\ e.week >= 1
    BY DEF HistoryOK
  <2>2. Since(weekly.events, 0) = Since(weekly.events, 1)
    BY <2>1 DEF Since
  <2> QED BY <2>2 DEF PRsOfLanguage
<1>2. S \in SUBSET PullRequests /\ IsFiniteSet(S)
  <2> DEFINE own == {x \in Since(weekly.events, 0) : x.bot = b}
             f == [e \in own |-> e.pr]
  <2>1. own \in SUBSET weekly.events /\ IsFiniteSet(weekly.events)
    BY DEF Since, HistoryOK
  <2>2. IsFiniteSet(own)
    BY <2>1, FS_Subset
  <2>3. IsFiniteSet({f[e] : e \in own})
    <3> HIDE DEF own, f
    <3> QED BY <2>2, FiniteRange
  <2>4. S \in SUBSET {f[e] : e \in own}
    BY DEF PRsOfLanguage
  <2>5. IsFiniteSet(S)
    BY <2>3, <2>4, FS_Subset
  <2>6. \A e \in weekly.events : e.pr \in PullRequests
    BY DEF HistoryOK
  <2>7. S \in SUBSET PullRequests
    BY <2>1, <2>6 DEF PRsOfLanguage
  <2> QED BY <2>5, <2>7
<1>3. \A pr \in S : pr = <<pr[1], pr[2]>> /\ pr[1] \in Repositories
  <2>1. PullRequests \subseteq Repositories \X Nat
    BY ListingsAssumption
  <2> QED BY <1>2, <2>1
<1>4. ASSUME NEW r \in Repositories PROVE h[r] = Cardinality({pr \in S : key[pr] = r})
  <2> DEFINE own == of(r)
             f == [pr \in own |-> pr[2]]
  <2>1. own \in SUBSET S /\ own = {pr \in S : key[pr] = r}
    OBVIOUS
  <2>2. IsFiniteSet(own)
    BY <1>2, <2>1, FS_Subset
  <2>3. \A x, y \in own : f[x] = f[y] => x = y
    BY <1>3
  <2>4. {pr[2] : pr \in own} = {f[x] : x \in own}
    OBVIOUS
  <2>5. h[r] = Cardinality({pr[2] : pr \in own})
    OBVIOUS
  <2> HIDE DEF own, f, h, key
  <2>6. Cardinality({f[x] : x \in own}) = Cardinality(own)
    BY <2>2, <2>3, SameNumber
  <2> QED BY <2>1, <2>4, <2>5, <2>6
<1>5. \A pr \in S : key[pr] \in Repositories
  BY <1>3
<1>6. DOMAIN h = Repositories
  OBVIOUS
<1>7. LanguagePRs(b, l, 0) = SumFunction(h)
  BY DEF LanguagePRs
<1>8. LanguagePRs(b, l, 1) = Cardinality(S)
  BY <1>1 DEF LanguagePRs
<1> HIDE DEF S, of, key, h
<1>9. SumFunctionOnSet(h, Repositories) = Cardinality(S)
  <2>1. \A r \in Repositories : h[r] = Cardinality({pr \in S : key[pr] = r})
    BY <1>4
  <2>2. IsFiniteSet(S)
    BY <1>2
  <2> QED BY <1>5, <2>1, <2>2, CountGroups
<1>10. SumFunction(h) = SumFunctionOnSet(h, Repositories)
  BY <1>6, SumOfFunction
<1> QED BY <1>7, <1>8, <1>9, <1>10

\* NumbersAgree holds of all weekly tables: whatever path a number is computed along, per
\* bot, week, product or language, it is the same number.
THEOREM NumbersHold == weekly \in Histories => NumbersAgree
<1> SUFFICES ASSUME weekly \in Histories PROVE NumbersAgree
  OBVIOUS
<1>1. HistoryOK(weekly) /\ IsFiniteSet(WeekNumbers) /\ IsFiniteSet(Repositories)
  BY HistoriesAssumption
<1>2. ASSUME NEW from \in WeekNumbers, NEW w \in DOMAIN WeeklyTotals(from), NEW k \in Kinds
      PROVE  WeeklyTotals(from)[w].bots[k] =
               SumOf({r \in weekly.activity : r.week = w /\ r.bot \notin Accounts}, k)
                 + SumFunction([p \in ProductIds |->
                                  IF w \in DOMAIN Chart(p, 0) THEN Chart(p, 0)[w][k] ELSE 0])
  BY <1>1, VolumeSplits
<1>3. ASSUME NEW from \in WeekNumbers, NEW p \in ProductIds
      PROVE  LET s == Summary(p, from)
                 total == s.activity.total
                 bots == BotsWith(p)
                 chart == Chart(p, from)
                 trend == TrendData(ProductIds, from)
                 leaders == Leaderboard(from)
             IN /\ \A k \in Kinds :
                     /\ total[k] = SumFunction([b \in bots |-> BotSummary(b, from).activity.total[k]])
                     /\ total[k] = SumFunction([w \in DOMAIN chart |-> chart[w][k]])
                          + (IF k = "reviews"
                             THEN SumFunction([r \in Since(Of(weekly.reactions, p), from) |-> r.n])
                             ELSE 0)
                /\ total["reviews"] = SumFunction([x \in ProductBots(p, from) |-> x.total["reviews"]])
                /\ SumFunction([w \in DOMAIN chart |-> chart[w]["reviews"]])
                     = SumFunction([w \in DOMAIN trend |-> trend[w][p].reviews])
                /\ \A i \in 1..2 :
                     /\ s.votes[i] = SumFunction([b \in bots \cap DOMAIN leaders |-> leaders[b][i]])
                     /\ s.votes[i] = SumFunction([w \in WeekNumbers |->
                                                     WeeklyReactions(p, {w}, from).votes[i]])
                /\ CommentsPerPR(bots, from).prs
                     <= SumFunction([b \in bots |-> CommentsPerPR({b}, from).prs])
                /\ CommentsPerPR(bots, from).prs
                     <= SumFunction([w \in WeekNumbers |-> WeeklyReactions(p, {w}, from).prs])
                /\ \A b \in bots, l \in Range(Language) : LanguagePRs(b, l, 0) = LanguagePRs(b, l, 1)
  <2>1. ASSUME NEW k \in Kinds
        PROVE  /\ Summary(p, from).activity.total[k]
                    = SumFunction([b \in BotsWith(p) |-> BotSummary(b, from).activity.total[k]])
               /\ Summary(p, from).activity.total[k]
                    = SumFunction([w \in DOMAIN Chart(p, from) |-> Chart(p, from)[w][k]])
                        + (IF k = "reviews"
                           THEN SumFunction([r \in Since(Of(weekly.reactions, p), from) |-> r.n])
                           ELSE 0)
    <3>1. Summary(p, from).activity.total[k]
            = SumFunction([b \in BotsWith(p) |-> BotSummary(b, from).activity.total[k]])
      <4>1. Summary(p, from).activity.total[k] = SumFunction(BotTotals(p, from, k))
        BY <1>1, TotalOfBots
      <4> QED BY <4>1 DEF BotTotals
    <3>2. Summary(p, from).activity.total[k]
            = SumFunction([w \in DOMAIN Chart(p, from) |-> Chart(p, from)[w][k]])
                + (IF k = "reviews"
                   THEN SumFunction([r \in Since(Of(weekly.reactions, p), from) |-> r.n])
                   ELSE 0)
      BY <1>1, TotalOfChart
    <3> QED BY <3>1, <3>2
  <2>2. Summary(p, from).activity.total["reviews"]
          = SumFunction([x \in ProductBots(p, from) |-> x.total["reviews"]])
    BY <1>1, TotalOfListed
  <2>3. SumFunction([w \in DOMAIN Chart(p, from) |-> Chart(p, from)[w]["reviews"]])
          = SumFunction([w \in DOMAIN TrendData(ProductIds, from)
                           |-> TrendData(ProductIds, from)[w][p].reviews])
    BY <1>1, TrendTotals, Zenon
  <2>4. ASSUME NEW i \in 1 .. 2
        PROVE  /\ Summary(p, from).votes[i]
                    = SumFunction([b \in BotsWith(p) \cap DOMAIN Leaderboard(from)
                                     |-> Leaderboard(from)[b][i]])
               /\ Summary(p, from).votes[i]
                    = SumFunction([w \in WeekNumbers |-> WeeklyReactions(p, {w}, from).votes[i]])
    <3> DEFINE K == BotsWith(p) \cap DOMAIN Leaderboard(from)
    <3>1. /\ Summary(p, from).votes[1] = SumFunction([b \in K |-> Leaderboard(from)[b][1]])
          /\ Summary(p, from).votes[2] = SumFunction([b \in K |-> Leaderboard(from)[b][2]])
      BY <1>1, LeaderVotes, Zenon
    <3>2. /\ Summary(p, from).votes[1]
               = SumFunction([w \in WeekNumbers |-> WeeklyReactions(p, {w}, from).votes[1]])
          /\ Summary(p, from).votes[2]
               = SumFunction([w \in WeekNumbers |-> WeeklyReactions(p, {w}, from).votes[2]])
      BY <1>1, WeekVotes, Zenon
    <3>3. CASE i = 1
      BY <3>1, <3>2, <3>3
    <3>4. CASE i = 2
      BY <3>1, <3>2, <3>4
    <3> QED BY <3>3, <3>4
  <2>5. /\ CommentsPerPR(BotsWith(p), from).prs
             <= SumFunction([b \in BotsWith(p) |-> CommentsPerPR({b}, from).prs])
        /\ CommentsPerPR(BotsWith(p), from).prs
             <= SumFunction([w \in WeekNumbers |-> WeeklyReactions(p, {w}, from).prs])
    BY <1>1, CommentedPRs, Zenon
  <2>6. \A b \in BotsWith(p), l \in Range(Language) : LanguagePRs(b, l, 0) = LanguagePRs(b, l, 1)
    BY <1>1, LanguagesAgree
  <2> QED BY <2>1, <2>2, <2>3, <2>4, <2>5, <2>6, Zenon
<1> QED BY <1>2, <1>3, Zenon DEF NumbersAgree

-----------------------------------------------------------------------------
(* What becomes of the events *)

\* The events of listed logins, of people, and of "[bot]" accounts that are not listed.
OfBots(from, to) == {e \in Asked(from, to) : e.login \in BOT_LOGINS}
OfPeople(from, to) == {e \in Asked(from, to) : e.login \notin BOT_LOGINS /\ ~e.login[2]}
OfStrays(from, to) == {e \in Asked(from, to) : e.login[2] /\ e.login \notin BOT_LOGINS}

\* The rows of GH Archive's query: one a week and login.
LoginRow(from, to, w, l) ==
  LET own == {e \in ByWeek(OfBots(from, to), w) : e.login = l} IN
  [week |-> w, login |-> l, n |-> Counts(own),
   repos |-> Cardinality({e.repo : e \in own}), orgs |-> Cardinality({e.repo[1] : e \in own})]

\* And those that are stored: one a week and bot.
OwnRows(rows, w, b) == {r \in rows : r.week = w /\ BotOf[r.login] = b}
BotRow(rows, w, b) ==
  [week |-> w, bot |-> b, n |-> [k \in Kinds |-> SumOf(OwnRows(rows, w, b), k)],
   repos |-> SumFunction([r \in OwnRows(rows, w, b) |-> r.repos]),
   orgs |-> SumFunction([r \in OwnRows(rows, w, b) |-> r.orgs])]

LEMMA ThreeKinds ==
  ASSUME archive \in Archives, NEW from, NEW to
  PROVE  /\ IsFiniteSet(Asked(from, to)) /\ IsFiniteSet(OfBots(from, to))
         /\ IsFiniteSet(OfPeople(from, to)) /\ IsFiniteSet(OfStrays(from, to))
         /\ \A k \in Kinds :
              CountIf(OfBots(from, to), k) + CountIf(OfPeople(from, to), k)
                + CountIf(OfStrays(from, to), k) = CountIf(Asked(from, to), k)
<1> DEFINE A == Asked(from, to)
           E == OfBots(from, to)
           P == OfPeople(from, to)
           X == OfStrays(from, to)
<1>1. IsFiniteSet(A)
  <2>1. A \in SUBSET archive.events
    BY DEF Asked
  <2> QED BY <2>1, FS_Subset, ArchivesAssumption
<1>2. E \in SUBSET A /\ P \in SUBSET A /\ X \in SUBSET A
  BY DEF OfBots, OfPeople, OfStrays
<1>3. IsFiniteSet(E) /\ IsFiniteSet(P) /\ IsFiniteSet(X)
  BY <1>1, <1>2, FS_Subset
<1>4. A = (E \cup P) \cup X /\ E \cap P = {} /\ (E \cup P) \cap X = {}
  BY DEF OfBots, OfPeople, OfStrays
<1> HIDE DEF A, E, P, X
<1>5. ASSUME NEW k \in Kinds PROVE CountIf(E, k) + CountIf(P, k) + CountIf(X, k) = CountIf(A, k)
  <2> DEFINE of(S) == {e \in S : e.type = TypeOf[k]}
  <2>1. of(A) = (of(E) \cup of(P)) \cup of(X)
    BY <1>4
  <2>2. of(E) \cap of(P) = {} /\ (of(E) \cup of(P)) \cap of(X) = {}
    BY <1>4
  <2>3. IsFiniteSet(of(E)) /\ IsFiniteSet(of(P)) /\ IsFiniteSet(of(X))
    <3>1. of(E) \in SUBSET E /\ of(P) \in SUBSET P /\ of(X) \in SUBSET X
      OBVIOUS
    <3> HIDE DEF of
    <3> QED BY <1>3, <3>1, FS_Subset
  <2>4. CountIf(E, k) = Cardinality(of(E)) /\ CountIf(P, k) = Cardinality(of(P))
        /\ CountIf(X, k) = Cardinality(of(X)) /\ CountIf(A, k) = Cardinality(of(A))
    BY DEF CountIf
  <2> HIDE DEF of
  <2>5. IsFiniteSet(of(E) \cup of(P))
        /\ Cardinality(of(E) \cup of(P)) = Cardinality(of(E)) + Cardinality(of(P))
    BY <2>2, <2>3, CountDisjoint
  <2>6. Cardinality((of(E) \cup of(P)) \cup of(X))
          = Cardinality(of(E) \cup of(P)) + Cardinality(of(X))
    BY <2>2, <2>3, <2>5, CountDisjoint
  <2>7. Cardinality(of(E)) \in Nat /\ Cardinality(of(P)) \in Nat /\ Cardinality(of(X)) \in Nat
    BY <2>3, FS_CardinalityType
  <2> QED BY <2>1, <2>4, <2>5, <2>6, <2>7
<1> QED BY <1>1, <1>3, <1>5 DEF A, E, P, X

\* The events of one type.
Typed(events, k) == {e \in events : e.type = TypeOf[k]}

LEMMA CountedOfType ==
  ASSUME NEW E, IsFiniteSet(E), NEW k
  PROVE  /\ IsFiniteSet(Typed(E, k)) /\ CountIf(E, k) = Cardinality(Typed(E, k))
         /\ CountIf(E, k) \in Nat
<1>1. Typed(E, k) \in SUBSET E
  BY DEF Typed
<1>2. IsFiniteSet(Typed(E, k))
  BY <1>1, FS_Subset
<1>3. CountIf(E, k) = Cardinality(Typed(E, k))
  BY DEF CountIf, Typed
<1> QED BY <1>2, <1>3, FS_CardinalityType

\* The events in the rows of a query that groups them by a key.
LEMMA GroupedRows ==
  ASSUME NEW E, IsFiniteSet(E), NEW rows, IsFiniteSet(rows), NEW key, \A e \in E : key[e] \in rows,
         NEW k, NEW h, \A r \in rows : h[r] = Cardinality({e \in Typed(E, k) : key[e] = r})
  PROVE  SumFunctionOnSet(h, rows) = CountIf(E, k)
<1>1. IsFiniteSet(Typed(E, k))
  BY CountedOfType
<1>2. \A e \in Typed(E, k) : key[e] \in rows
  BY DEF Typed
<1>3. SumFunctionOnSet(h, rows) = Cardinality(Typed(E, k))
  BY <1>1, <1>2, CountGroups
<1> QED BY <1>3, CountedOfType

\* The rows of the logins count the events of listed logins.
LEMMA RowsOfLogins ==
  ASSUME archive \in Archives, NEW from, NEW to
  PROVE  LET rows == BotReviewActivity(BOT_LOGINS, from, to)
             E == OfBots(from, to)
         IN /\ rows = {LoginRow(from, to, MondayOf(e.day), e.login) : e \in E}
            /\ IsFiniteSet(rows)
            /\ \A r \in rows : r.login \in BOT_LOGINS /\ r = LoginRow(from, to, r.week, r.login)
            /\ \A r \in rows, k \in Kinds : r.n[k] \in Nat
            /\ \A k \in Kinds : SumOf(rows, k) = CountIf(E, k)
<1> DEFINE rows == BotReviewActivity(BOT_LOGINS, from, to)
           E == OfBots(from, to)
           Row(e) == LoginRow(from, to, MondayOf(e.day), e.login)
           key == [e \in E |-> Row(e)]
<1>1. rows = {Row(e) : e \in E}
  BY DEF BotReviewActivity, LoginRow, OfBots
<1>2. \A w, l : LoginRow(from, to, w, l).week = w /\ LoginRow(from, to, w, l).login = l
  BY DEF LoginRow
<1>3. \A e \in E : Row(e).week = MondayOf(e.day) /\ Row(e).login = e.login
  BY <1>2
<1>4. \A e \in E : e.login \in BOT_LOGINS
  BY DEF OfBots
<1>5. \A r \in rows : r.login \in BOT_LOGINS /\ r = LoginRow(from, to, r.week, r.login)
  <2> SUFFICES ASSUME NEW r \in rows
               PROVE  r.login \in BOT_LOGINS /\ r = LoginRow(from, to, r.week, r.login)
    OBVIOUS
  <2>1. PICK e \in E : r = Row(e)
    BY <1>1
  <2>2. r.week = MondayOf(e.day) /\ r.login = e.login
    BY <1>3, <2>1
  <2> QED BY <1>4, <2>1, <2>2
<1>6. ASSUME NEW r \in rows, NEW k \in Kinds PROVE r.n[k] = CountIf({e \in E : key[e] = r}, k)
  <2> DEFINE own == {e \in ByWeek(E, r.week) : e.login = r.login}
  <2>1. own = {e \in E : key[e] = r}
    <3>1. \A e \in E : key[e] = r <=> MondayOf(e.day) = r.week /\ e.login = r.login
      BY <1>3, <1>5
    <3> QED BY <3>1 DEF ByWeek
  <2>2. r = LoginRow(from, to, r.week, r.login)
    BY <1>5
  <2>3. r.n = Counts(own)
    BY <2>2 DEF LoginRow
  <2>4. r.n[k] = CountIf(own, k)
    BY <2>3 DEF Counts
  <2> QED BY <2>1, <2>4
<1>7. rows = {key[e] : e \in E}
  BY <1>1
<1>8. IsFiniteSet(E)
  BY ThreeKinds
<1> HIDE DEF rows, E, key, Row
<1>9. IsFiniteSet(rows) /\ \A e \in E : key[e] \in rows
  BY <1>7, <1>8, FiniteRange
<1>10. ASSUME NEW k \in Kinds
       PROVE  (\A r \in rows : r.n[k] \in Nat) /\ SumOf(rows, k) = CountIf(E, k)
  <2> DEFINE h == [r \in rows |-> r.n[k]]
  <2>1. ASSUME NEW r \in rows
        PROVE  h[r] = Cardinality({e \in Typed(E, k) : key[e] = r}) /\ h[r] \in Nat
    <3> DEFINE own == {e \in E : key[e] = r}
    <3>1. h[r] = CountIf(own, k)
      BY <1>6
    <3>2. Typed(own, k) = {e \in Typed(E, k) : key[e] = r}
      BY DEF Typed
    <3>3. own \in SUBSET E
      OBVIOUS
    <3> HIDE DEF own, h
    <3>4. IsFiniteSet(own)
      BY <1>8, <3>3, FS_Subset
    <3>5. CountIf(own, k) = Cardinality(Typed(own, k)) /\ CountIf(own, k) \in Nat
      BY <3>4, CountedOfType
    <3> QED BY <3>1, <3>2, <3>5
  <2>2. SumOf(rows, k) = SumFunction(h) /\ DOMAIN h = rows
    BY DEF SumOf
  <2>3. \A r \in rows : h[r] = r.n[k]
    OBVIOUS
  <2> HIDE DEF h
  <2>4. \A r \in rows : h[r] = Cardinality({e \in Typed(E, k) : key[e] = r})
    BY <2>1
  <2>5. SumFunctionOnSet(h, rows) = CountIf(E, k)
    <3>1. \A e \in E : key[e] \in rows
      BY <1>9
    <3>2. IsFiniteSet(rows)
      BY <1>9
    <3> QED BY <1>8, <2>4, <3>1, <3>2, GroupedRows
  <2> QED BY <2>1, <2>2, <2>3, <2>5, SumOfFunction
<1> QED BY <1>1, <1>5, <1>9, <1>10 DEF rows, E, Row

\* And those of people theirs.
LEMMA RowsOfPeople ==
  ASSUME archive \in Archives, NEW from, NEW to, NEW k \in Kinds
  PROVE  SumOf(HumanReviewActivity(BOT_LOGINS, from, to), k) = CountIf(OfPeople(from, to), k)
<1> DEFINE rows == HumanReviewActivity(BOT_LOGINS, from, to)
           P == OfPeople(from, to)
           Row(w) == [week |-> w, n |-> Counts(ByWeek(P, w)),
                      repos |-> Cardinality({e.repo : e \in ByWeek(P, w)})]
           key == [e \in P |-> Row(MondayOf(e.day))]
<1>1. rows = {Row(w) : w \in {MondayOf(e.day) : e \in P}}
  BY DEF HumanReviewActivity, OfPeople
<1>2. rows = {key[e] : e \in P}
  BY <1>1
<1>3. \A w : Row(w).week = w /\ Row(w).n = Counts(ByWeek(P, w))
  OBVIOUS
<1>4. ASSUME NEW r \in rows PROVE r.n[k] = CountIf({e \in P : key[e] = r}, k)
  <2>1. PICK w : r = Row(w)
    BY <1>1
  <2>2. \A e \in P : key[e] = Row(MondayOf(e.day))
    OBVIOUS
  <2> HIDE DEF key, Row
  <2>3. \A e \in P : key[e] = r <=> MondayOf(e.day) = w
    BY <1>3, <2>1, <2>2
  <2>4. {e \in P : key[e] = r} = ByWeek(P, w)
    BY <2>3 DEF ByWeek
  <2>5. r.n[k] = CountIf(ByWeek(P, w), k)
    BY <1>3, <2>1 DEF Counts
  <2> QED BY <2>4, <2>5
<1>5. IsFiniteSet(P)
  BY ThreeKinds
<1> HIDE DEF rows, P, Row, key
<1>6. SumOf(rows, k) = CountIf(P, k)
  <2> DEFINE h == [r \in rows |-> r.n[k]]
  <2>1. ASSUME NEW r \in rows PROVE h[r] = Cardinality({e \in Typed(P, k) : key[e] = r})
    <3> DEFINE own == {e \in P : key[e] = r}
    <3>1. h[r] = CountIf(own, k)
      BY <1>4
    <3>2. Typed(own, k) = {e \in Typed(P, k) : key[e] = r}
      BY DEF Typed
    <3>3. own \in SUBSET P
      OBVIOUS
    <3> HIDE DEF own, h
    <3>4. IsFiniteSet(own)
      BY <1>5, <3>3, FS_Subset
    <3> QED BY <3>1, <3>2, <3>4, CountedOfType
  <2>2. SumOf(rows, k) = SumFunction(h) /\ DOMAIN h = rows
    BY DEF SumOf
  <2>3. IsFiniteSet(rows) /\ \A e \in P : key[e] \in rows
    BY <1>2, <1>5, FiniteRange
  <2> HIDE DEF h
  <2>4. SumFunctionOnSet(h, rows) = CountIf(P, k)
    <3>1. \A r \in rows : h[r] = Cardinality({e \in Typed(P, k) : key[e] = r})
      BY <2>1
    <3>2. \A e \in P : key[e] \in rows
      BY <2>3
    <3>3. IsFiniteSet(rows)
      BY <2>3
    <3> QED BY <1>5, <3>1, <3>2, <3>3, GroupedRows
  <2> QED BY <2>2, <2>4, SumOfFunction
<1> QED BY <1>6 DEF rows, P

\* The rows that are stored: one a week and bot, and together they count the same.
LEMMA RowsOfBots ==
  ASSUME archive \in Archives, NEW from, NEW to
  PROVE  LET rows == BotReviewActivity(BOT_LOGINS, from, to)
             bots == MapBotActivity(rows)
         IN /\ bots = {BotRow(rows, r.week, BotOf[r.login]) : r \in rows}
            /\ \A x \in bots : x = BotRow(rows, x.week, x.bot)
            /\ \A x \in bots, k \in Kinds : x.n[k] = SumOf(OwnRows(rows, x.week, x.bot), k)
            /\ \A k \in Kinds : SumOf(bots, k) = SumOf(rows, k)
<1> DEFINE rows == BotReviewActivity(BOT_LOGINS, from, to)
           bots == MapBotActivity(rows)
           Row(r) == BotRow(rows, r.week, BotOf[r.login])
           key == [r \in rows |-> Row(r)]
<1>1. /\ IsFiniteSet(rows) /\ \A r \in rows : r.login \in BOT_LOGINS
      /\ \A r \in rows, k \in Kinds : r.n[k] \in Nat
  BY RowsOfLogins
<1> HIDE DEF rows
<1>2. bots = {Row(r) : r \in rows}
  <2>1. {r \in rows : r.login \in BOT_LOGINS} = rows
    BY <1>1
  <2> QED BY <2>1, Zenon DEF MapBotActivity, BotRow, OwnRows
<1>3. \A w, b : BotRow(rows, w, b).week = w /\ BotRow(rows, w, b).bot = b
  BY DEF BotRow
<1>4. \A r \in rows : Row(r).week = r.week /\ Row(r).bot = BotOf[r.login]
  BY <1>3
<1>5. \A x \in bots : x = BotRow(rows, x.week, x.bot)
  <2> SUFFICES ASSUME NEW x \in bots PROVE x = BotRow(rows, x.week, x.bot)
    OBVIOUS
  <2>1. PICK r \in rows : x = Row(r)
    BY <1>2
  <2> QED BY <1>4, <2>1
<1>6. ASSUME NEW x \in bots, NEW k \in Kinds
      PROVE  x.n[k] = SumOf(OwnRows(rows, x.week, x.bot), k)
  <2>1. x = BotRow(rows, x.week, x.bot)
    BY <1>5
  <2>2. BotRow(rows, x.week, x.bot).n = [j \in Kinds |-> SumOf(OwnRows(rows, x.week, x.bot), j)]
    BY DEF BotRow
  <2>3. x.n = [j \in Kinds |-> SumOf(OwnRows(rows, x.week, x.bot), j)]
    BY <2>1, <2>2
  <2> QED BY <2>3
<1>7. ASSUME NEW x \in bots PROVE OwnRows(rows, x.week, x.bot) = {r \in rows : key[r] = x}
  <2>1. \A r \in rows : key[r] = x <=> r.week = x.week /\ BotOf[r.login] = x.bot
    BY <1>4, <1>5
  <2> QED BY <2>1 DEF OwnRows
<1>8. IsFiniteSet(bots) /\ \A r \in rows : key[r] \in bots
  <2>1. bots = {key[r] : r \in rows}
    BY <1>2
  <2> HIDE DEF key, bots
  <2> QED BY <1>1, <2>1, FiniteRange
<1> HIDE DEF bots, Row, key
<1>9. ASSUME NEW k \in Kinds PROVE SumOf(bots, k) = SumOf(rows, k)
  <2> DEFINE f == [r \in rows |-> r.n[k]]
             h == [x \in bots |-> x.n[k]]
  <2>1. SumOf(rows, k) = SumFunctionOnSet(f, rows) /\ SumOf(bots, k) = SumFunctionOnSet(h, bots)
    <3>1. SumOf(rows, k) = SumFunction(f) /\ DOMAIN f = rows
      BY DEF SumOf
    <3>2. SumOf(bots, k) = SumFunction(h) /\ DOMAIN h = bots
      BY DEF SumOf
    <3> HIDE DEF f, h
    <3> QED BY <3>1, <3>2, SumOfFunction
  <2>2. \A r \in rows : f[r] \in Int
    BY <1>1
  <2>3. ASSUME NEW x \in bots PROVE h[x] = SumFunctionOnSet(f, {r \in rows : key[r] = x})
    <3> DEFINE own == OwnRows(rows, x.week, x.bot)
               g == [r \in own |-> r.n[k]]
    <3>1. own \in SUBSET rows /\ own = {r \in rows : key[r] = x}
      BY <1>7 DEF OwnRows
    <3>2. h[x] = SumOf(own, k)
      BY <1>6
    <3>3. SumOf(own, k) = SumFunction(g) /\ DOMAIN g = own
      BY DEF SumOf
    <3>4. IsFiniteSet(own)
      BY <1>1, <3>1, FS_Subset
    <3>5. \A r \in own : g[r] \in Int /\ g[r] = f[r]
      BY <1>1, <3>1
    <3> HIDE DEF f, g, h, own
    <3>6. SumFunctionOnSet(g, own) = SumFunctionOnSet(f, own)
      BY <3>4, <3>5, SumSame
    <3>7. SumFunction(g) = SumFunctionOnSet(g, own)
      BY <3>3, SumOfFunction
    <3> QED BY <3>1, <3>2, <3>3, <3>6, <3>7
  <2> HIDE DEF f, h
  <2>4. SumFunctionOnSet(h, bots) = SumFunctionOnSet(f, rows)
    <3>1. \A x \in bots : h[x] = SumFunctionOnSet(f, {r \in rows : key[r] = x})
      BY <2>3
    <3>2. IsFiniteSet(rows) /\ IsFiniteSet(bots)
      BY <1>1, <1>8
    <3>3. \A r \in rows : key[r] \in bots
      BY <1>8
    <3> QED BY <2>2, <3>1, <3>2, <3>3, SumGroups
  <2> QED BY <2>1, <2>4
<1> QED BY <1>2, <1>5, <1>6, <1>9 DEF bots, Row, rows

\* A row of a bot counts its events of the week.
LEMMA EventsOfRow ==
  ASSUME archive \in Archives, NEW from, NEW to,
         NEW week, NEW b, NEW k \in Kinds
  PROVE  SumOf(OwnRows(BotReviewActivity(BOT_LOGINS, from, to), week, b), k)
           = CountIf({e \in OfBots(from, to) : MondayOf(e.day) = week /\ BotOf[e.login] = b}, k)
<1> DEFINE rows == BotReviewActivity(BOT_LOGINS, from, to)
           E == OfBots(from, to)
           X == {e \in E : MondayOf(e.day) = week /\ BotOf[e.login] = b}
           own == OwnRows(rows, week, b)
           Row(e) == LoginRow(from, to, MondayOf(e.day), e.login)
           key == [e \in E |-> Row(e)]
           h == [r \in own |-> r.n[k]]
<1>2. /\ rows = {Row(e) : e \in E} /\ IsFiniteSet(rows)
      /\ \A r \in rows : r.login \in BOT_LOGINS /\ r = LoginRow(from, to, r.week, r.login)
  BY RowsOfLogins
<1>3. \A w, l : LoginRow(from, to, w, l).week = w /\ LoginRow(from, to, w, l).login = l
  BY DEF LoginRow
<1>4. own \in SUBSET rows /\ IsFiniteSet(own)
  <2>1. own \in SUBSET rows
    BY DEF OwnRows
  <2> QED BY <1>2, <2>1, FS_Subset
<1>5. X \in SUBSET E /\ IsFiniteSet(X) /\ IsFiniteSet(E)
  <2>1. IsFiniteSet(E)
    BY ThreeKinds
  <2> QED BY <2>1, FS_Subset
<1>6. \A e \in X : key[e] \in own
  <2> SUFFICES ASSUME NEW e \in X PROVE Row(e) \in own
    OBVIOUS
  <2>1. Row(e) \in rows
    BY <1>2
  <2>2. Row(e).week = week /\ BotOf[Row(e).login] = b
    BY <1>3
  <2> QED BY <2>1, <2>2 DEF OwnRows
<1>7. ASSUME NEW r \in own PROVE h[r] = Cardinality({e \in Typed(X, k) : key[e] = r})
  <2> DEFINE S == {e \in ByWeek(E, r.week) : e.login = r.login}
  <2>1. r = LoginRow(from, to, r.week, r.login) /\ r.week = week /\ BotOf[r.login] = b
    BY <1>2 DEF OwnRows
  <2>2. r.n = Counts(S)
    BY <2>1 DEF LoginRow
  <2>3. h[r] = CountIf(S, k)
    BY <2>2 DEF Counts
  <2>4. \A e \in E : key[e] = r <=> MondayOf(e.day) = r.week /\ e.login = r.login
    BY <1>3, <2>1
  <2>5. Typed(S, k) = {e \in Typed(X, k) : key[e] = r}
    BY <2>1, <2>4 DEF Typed, ByWeek
  <2>6. S \in SUBSET E
    BY DEF ByWeek
  <2> HIDE DEF S, E, X, key, h
  <2>7. IsFiniteSet(S)
    BY <1>5, <2>6, FS_Subset
  <2> QED BY <2>3, <2>5, <2>7, CountedOfType
<1>8. SumOf(own, k) = SumFunction(h) /\ DOMAIN h = own
  BY DEF SumOf
<1> HIDE DEF rows, E, X, own, key, Row, h
<1>9. SumFunctionOnSet(h, own) = CountIf(X, k)
  <2> DEFINE Y == Typed(X, k)
  <2>1. \A r \in own : h[r] = Cardinality(Fiber(Y, key, r))
    BY <1>7 DEF Fiber
  <2>2. IsFiniteSet(Y) /\ CountIf(X, k) = Cardinality(Y)
    BY <1>5, CountedOfType
  <2>3. IsFiniteSet(own)
    BY <1>4
  <2>4. \A e \in Y : key[e] \in own
    BY <1>6 DEF Typed
  <2>5. IsFiniteSet(Y)
    BY <2>2
  <2> HIDE DEF Y
  <2>6. SumFunctionOnSet(h, own) = Cardinality(Y)
    BY <2>1, <2>3, <2>4, <2>5, CountFibers
  <2> QED BY <2>2, <2>6
<1> QED BY <1>8, <1>9, SumOfFunction DEF X, E, own, rows

\* What is discovered of an event.
Found(e) == [repo |-> e.repo, pr |-> e.pr, bot |-> BotOf[e.login], login |-> e.login,
             type |-> e.type, week |-> MondayOf(e.day)]

LEMMA FoundOfEvents ==
  ASSUME NEW from, NEW to
  PROVE  MapPrBotEvents(BotPREvents(BOT_LOGINS, from, to))
           = {Found(e) : e \in {q \in OfBots(from, to) : q.pr # 0}}
<1> DEFINE E == {x \in Asked(from, to) : x.login \in BOT_LOGINS /\ x.pr # 0}
           Row(e) == [repo |-> e.repo, pr |-> e.pr, login |-> e.login, type |-> e.type,
                      week |-> MondayOf(e.day)]
           Mapped(r) == [repo |-> r.repo, pr |-> r.pr, bot |-> BotOf[r.login], login |-> r.login,
                         type |-> r.type, week |-> r.week]
           rows == BotPREvents(BOT_LOGINS, from, to)
<1>1. rows = {Row(e) : e \in E}
  BY DEF BotPREvents
<1>2. \A e \in E : Row(e).login \in BOT_LOGINS /\ Mapped(Row(e)) = Found(e)
  BY DEF Found
<1>3. MapPrBotEvents(rows) = {Mapped(r) : r \in {q \in rows : q.login \in BOT_LOGINS}}
  BY DEF MapPrBotEvents
<1>4. E = {q \in OfBots(from, to) : q.pr # 0}
  BY DEF OfBots
<1> HIDE DEF E, Row, Mapped, rows
<1>5. {q \in rows : q.login \in BOT_LOGINS} = rows
  BY <1>1, <1>2
<1>6. {Mapped(r) : r \in rows} = {Found(e) : e \in E}
  BY <1>1, <1>2
<1> QED BY <1>3, <1>4, <1>5, <1>6 DEF rows

\* A week's number is not smaller than the PRs of the week, and no PR is without a number.
LEMMA NumbersAnnounce ==
  ASSUME archive \in Archives, NEW from, NEW to
  PROVE  LET bots == MapBotActivity(BotReviewActivity(BOT_LOGINS, from, to))
             found == MapPrBotEvents(BotPREvents(BOT_LOGINS, from, to))
         IN /\ \A r \in bots, k \in Kinds :
                 Cardinality({d \in found : d.bot = r.bot /\ d.week = r.week /\ d.type = TypeOf[k]})
                   <= r.n[k]
            /\ \A d \in found : \E r \in bots : r.bot = d.bot /\ r.week = d.week
<1> DEFINE rows == BotReviewActivity(BOT_LOGINS, from, to)
           bots == MapBotActivity(rows)
           E == OfBots(from, to)
           found == MapPrBotEvents(BotPREvents(BOT_LOGINS, from, to))
<1>1. found = {Found(e) : e \in {q \in E : q.pr # 0}}
  BY FoundOfEvents
<1>2. ASSUME NEW r \in bots, NEW k \in Kinds
      PROVE  Cardinality({d \in found : d.bot = r.bot /\ d.week = r.week /\ d.type = TypeOf[k]})
               <= r.n[k]
  <2> DEFINE D == {d \in found : d.bot = r.bot /\ d.week = r.week /\ d.type = TypeOf[k]}
             X == {e \in E : MondayOf(e.day) = r.week /\ BotOf[e.login] = r.bot}
             Y == Typed(X, k)
             f == [e \in Y |-> Found(e)]
  <2>1. r.n[k] = CountIf(X, k)
    <3>1. r.n[k] = SumOf(OwnRows(rows, r.week, r.bot), k)
      BY RowsOfBots
    <3> QED BY <3>1, EventsOfRow
  <2>2. IsFiniteSet(X)
    <3>1. IsFiniteSet(E) /\ X \in SUBSET E
      BY ThreeKinds
    <3> QED BY <3>1, FS_Subset
  <2>3. IsFiniteSet(Y) /\ CountIf(X, k) = Cardinality(Y)
    BY <2>2, CountedOfType
  <2>4. \A d \in D : \E e \in Y : d = f[e]
    <3> SUFFICES ASSUME NEW d \in D PROVE \E e \in Y : d = f[e]
      OBVIOUS
    <3>1. PICK e \in E : d = Found(e)
      BY <1>1
    <3>2. MondayOf(e.day) = r.week /\ BotOf[e.login] = r.bot /\ e.type = TypeOf[k]
      BY <3>1 DEF Found
    <3>3. e \in Y
      BY <3>2 DEF Typed
    <3> QED BY <3>1, <3>3
  <2> HIDE DEF D, X, Y, f
  <2>5. Cardinality(D) <= Cardinality(Y)
    BY <2>3, <2>4, CountRange
  <2> QED BY <2>1, <2>3, <2>5 DEF D
<1>3. ASSUME NEW d \in found PROVE \E r \in bots : r.bot = d.bot /\ r.week = d.week
  <2>1. PICK e \in E : d = Found(e)
    BY <1>1
  <2> DEFINE r == LoginRow(from, to, MondayOf(e.day), e.login)
             b == BotRow(rows, r.week, BotOf[r.login])
  <2>2. r \in rows /\ r.week = MondayOf(e.day) /\ r.login = e.login
    <3>1. rows = {LoginRow(from, to, MondayOf(q.day), q.login) : q \in E}
      BY RowsOfLogins
    <3> QED BY <3>1 DEF LoginRow
  <2>3. b \in bots
    <3>1. bots = {BotRow(rows, q.week, BotOf[q.login]) : q \in rows}
      BY RowsOfBots
    <3> HIDE DEF r, rows
    <3> QED BY <2>2, <3>1
  <2>4. b.week = r.week /\ b.bot = BotOf[r.login]
    BY DEF BotRow
  <2>5. d.bot = BotOf[e.login] /\ d.week = MondayOf(e.day)
    BY <2>1 DEF Found
  <2> HIDE DEF r, b, bots, rows
  <2> QED BY <2>2, <2>3, <2>4, <2>5
<1> QED BY <1>2, <1>3

\* A sequence of the members of a set, in any order.
LEMMA SequenceOf ==
  ASSUME NEW S, IsFiniteSet(S)
  PROVE  LET s == SetToSeq(S) IN
         /\ s \in Seq(S) /\ Range(s) = S
         /\ Reverse(s) \in Seq(S) /\ Range(Reverse(s)) = S
<1> DEFINE s == SetToSeq(S)
           n == Cardinality(S)
<1>1. n \in Nat
  BY FS_CardinalityType
<1>2. IsFiniteSet(1 .. n) /\ Cardinality(1 .. n) = n
  BY <1>1, FS_Interval
<1>3. \E f \in [1 .. n -> S] : IsInjective(f)
  <2>1. PICK f : f \in Bijection(1 .. n, S)
    BY <1>2, FS_SameCardinalityBij DEF ExistsBijection
  <2> QED BY <2>1 DEF Bijection, Injection, Surjection, IsInjective
<1>4. s \in [1 .. n -> S] /\ IsInjective(s)
  BY <1>3 DEF SetToSeq
<1> HIDE DEF s
<1>5. s \in Surjection(1 .. n, S)
  <2>1. s \in Injection(1 .. n, S)
    BY <1>4 DEF Injection, IsInjective
  <2> QED BY <1>2, <2>1, FS_Injection
<1>6. s \in Seq(S) /\ Len(s) = n /\ DOMAIN s = 1 .. n
  BY <1>1, <1>4
<1>7. Range(s) = S
  BY <1>4, <1>5, <1>6 DEF Range, Surjection
<1> DEFINE t == Reverse(s)
<1>8. t = [i \in 1 .. n |-> s[(n - i) + 1]]
  BY <1>6 DEF Reverse
<1>9. \A i \in 1 .. n : (n - i) + 1 \in 1 .. n /\ t[i] = s[(n - i) + 1]
  BY <1>1, <1>8
<1>10. t \in Seq(S) /\ DOMAIN t = 1 .. n
  BY <1>1, <1>4, <1>8, <1>9
<1> HIDE DEF t
<1>11. Range(t) = S
  <2>1. Range(t) \in SUBSET S
    BY <1>4, <1>9, <1>10 DEF Range
  <2>2. ASSUME NEW y \in S PROVE y \in Range(t)
    <3>1. PICK i \in 1 .. n : s[i] = y
      BY <1>6, <1>7 DEF Range
    <3>2. (n - i) + 1 \in 1 .. n /\ (n - ((n - i) + 1)) + 1 = i
      BY <1>1
    <3>3. t[(n - i) + 1] = y
      BY <1>9, <3>1, <3>2
    <3> QED BY <1>10, <3>2, <3>3 DEF Range
  <2> QED BY <2>1, <2>2
<1> QED BY <1>6, <1>7, <1>10, <1>11 DEF s, t

\* Every row of the stream is in a batch, and no batch has others.
LEMMA BatchesCover ==
  ASSUME NEW S, NEW stream \in Seq(S), NEW size \in 1 .. 3
  PROVE  /\ \A batch \in Range(Batches(stream, size)) : Range(batch) \subseteq Range(stream)
         /\ \A y \in Range(stream) : \E batch \in Range(Batches(stream, size)) : y \in Range(batch)
<1> DEFINE n == Len(stream)
           N == (n + size - 1) \div size
           lo(i) == (i - 1) * size + 1
           hi(i) == Min({i * size, n})
           B == Batches(stream, size)
<1>1. n \in Nat /\ DOMAIN stream = 1 .. n
  OBVIOUS
<1>2. N \in Nat
  <2>1. CASE size = 1
    BY <1>1, <2>1
  <2>2. CASE size = 2
    BY <1>1, <2>2
  <2>3. CASE size = 3
    BY <1>1, <2>3
  <2> QED BY <2>1, <2>2, <2>3
<1>3. DOMAIN B = 1 .. N /\ \A i \in 1 .. N : B[i] = SubSeq(stream, lo(i), hi(i))
  BY DEF Batches
<1>4. ASSUME NEW i \in 1 .. N
      PROVE  /\ lo(i) \in Int /\ hi(i) \in Int /\ 1 <= lo(i) /\ hi(i) <= n
             /\ hi(i) = IF i * size <= n THEN i * size ELSE n
  <2>1. i \in Nat /\ i >= 1
    BY <1>2
  <2>2. i * size \in Int /\ lo(i) \in Int /\ 1 <= lo(i)
    <3>1. CASE size = 1
      BY <2>1, <3>1
    <3>2. CASE size = 2
      BY <2>1, <3>2
    <3>3. CASE size = 3
      BY <2>1, <3>3
    <3> QED BY <3>1, <3>2, <3>3
  <2>3. hi(i) = IF i * size <= n THEN i * size ELSE n
    BY <1>1, <2>2, SmallOf
  <2> QED BY <1>1, <2>2, <2>3
<1>5. ASSUME NEW i \in 1 .. N
      PROVE  Range(B[i]) = {stream[j] : j \in lo(i) .. hi(i)}
  <2> DEFINE a == lo(i)
             z == hi(i)
  <2>1. a \in Int /\ z \in Int /\ 1 <= a /\ z <= n /\ B[i] = SubSeq(stream, a, z)
    BY <1>3, <1>4
  <2> HIDE DEF a, z
  <2>2. \A j \in a .. z : stream[j] \in S
    BY <1>1, <2>1
  <2>3. /\ B[i] \in Seq(S) /\ Len(B[i]) = IF a <= z THEN z - a + 1 ELSE 0
        /\ \A j \in 1 .. z - a + 1 : B[i][j] = stream[a + j - 1]
    BY <2>1, <2>2, SubSeqProperties
  <2>4. DOMAIN B[i] = 1 .. Len(B[i])
    BY <2>3
  <2>5. ASSUME NEW y \in Range(B[i]) PROVE \E j \in a .. z : y = stream[j]
    <3>1. PICK j \in 1 .. Len(B[i]) : y = B[i][j]
      BY <2>4 DEF Range
    <3>2. a <= z /\ j \in 1 .. z - a + 1
      BY <2>1, <2>3, <3>1
    <3>3. a + j - 1 \in a .. z /\ y = stream[a + j - 1]
      BY <2>1, <2>3, <3>1, <3>2
    <3> QED BY <3>3
  <2>6. ASSUME NEW j \in a .. z PROVE stream[j] \in Range(B[i])
    <3>1. j - a + 1 \in 1 .. z - a + 1 /\ a + (j - a + 1) - 1 = j /\ a <= z
      BY <2>1
    <3>2. j - a + 1 \in DOMAIN B[i] /\ B[i][j - a + 1] = stream[j]
      BY <2>1, <2>3, <2>4, <3>1
    <3> QED BY <3>2 DEF Range
  <2>7. Range(B[i]) = {stream[j] : j \in a .. z}
    BY <2>5, <2>6
  <2> QED BY <2>7 DEF a, z
<1>6. ASSUME NEW j \in 1 .. n PROVE \E i \in 1 .. N : j \in lo(i) .. hi(i)
  <2> DEFINE i == ((j - 1) \div size) + 1
  <2>1. i \in 1 .. N /\ lo(i) <= j /\ j <= i * size /\ i * size \in Int
    <3>1. CASE size = 1
      BY <1>1, <3>1
    <3>2. CASE size = 2
      BY <1>1, <3>2
    <3>3. CASE size = 3
      BY <1>1, <3>3
    <3> QED BY <3>1, <3>2, <3>3
  <2>2. hi(i) = (IF i * size <= n THEN i * size ELSE n) /\ lo(i) \in Int /\ hi(i) \in Int
    BY <1>4, <2>1
  <2>3. j <= hi(i)
    BY <1>1, <2>1, <2>2
  <2> HIDE DEF i, lo, hi
  <2>4. j \in lo(i) .. hi(i)
    BY <1>1, <2>1, <2>2, <2>3
  <2> QED BY <2>1, <2>4
<1> HIDE DEF B, N, lo, hi
<1>7. ASSUME NEW batch \in Range(B) PROVE Range(batch) \subseteq Range(stream)
  <2>1. PICK i \in 1 .. N : batch = B[i]
    BY <1>3 DEF Range
  <2>2. Range(batch) = {stream[j] : j \in lo(i) .. hi(i)}
    BY <1>5, <2>1
  <2>3. \A j \in lo(i) .. hi(i) : j \in 1 .. n
    BY <1>1, <1>4
  <2> QED BY <1>1, <2>2, <2>3 DEF Range
<1>8. ASSUME NEW y \in Range(stream) PROVE \E batch \in Range(B) : y \in Range(batch)
  <2>1. PICK j \in 1 .. n : y = stream[j]
    BY <1>1 DEF Range
  <2>2. PICK i \in 1 .. N : j \in lo(i) .. hi(i)
    BY <1>6
  <2>3. y \in Range(B[i])
    BY <1>5, <2>1, <2>2
  <2>4. B[i] \in Range(B)
    BY <1>3 DEF Range
  <2> QED BY <2>3, <2>4
<1> QED BY <1>7, <1>8 DEF B

LEMMA BatchesDoNotMatter ==
  ASSUME NEW found, NEW stream \in Seq(found), Range(stream) = found, NEW size \in 1 .. 3
  PROVE  Discovered(stream, size) = MapPrBotEvents(found)
<1> DEFINE Mapped(r) == [repo |-> r.repo, pr |-> r.pr, bot |-> BotOf[r.login], login |-> r.login,
                         type |-> r.type, week |-> r.week]
           B == Range(Batches(stream, size))
<1>1. \A rows : MapPrBotEvents(rows) = {Mapped(r) : r \in {q \in rows : q.login \in BOT_LOGINS}}
  BY DEF MapPrBotEvents
<1>2. /\ \A batch \in B : Range(batch) \subseteq found
      /\ \A y \in found : \E batch \in B : y \in Range(batch)
  BY BatchesCover
<1>3. Discovered(stream, size) = UNION {MapPrBotEvents(Range(batch)) : batch \in B}
  BY DEF Discovered
<1> HIDE DEF Mapped, B
<1>4. ASSUME NEW d \in MapPrBotEvents(found) PROVE \E batch \in B : d \in MapPrBotEvents(Range(batch))
  <2>1. PICK r \in found : r.login \in BOT_LOGINS /\ d = Mapped(r)
    BY <1>1
  <2>2. PICK batch \in B : r \in Range(batch)
    BY <1>2
  <2>3. d \in MapPrBotEvents(Range(batch))
    BY <1>1, <2>1, <2>2
  <2> QED BY <2>3
<1>5. ASSUME NEW batch \in B, NEW d \in MapPrBotEvents(Range(batch)) PROVE d \in MapPrBotEvents(found)
  <2>1. PICK r \in Range(batch) : r.login \in BOT_LOGINS /\ d = Mapped(r)
    BY <1>1
  <2>2. r \in found
    BY <1>2
  <2> QED BY <1>1, <2>1, <2>2
<1> QED BY <1>3, <1>4, <1>5

\* CountedForOne holds of every archive: whatever events there are, in whatever order and
\* batches they arrive, each is counted once, for a bot, for people or for neither.
THEOREM CountsHold == archive \in Archives => CountedForOne
<1> SUFFICES ASSUME archive \in Archives, NEW range \in RangesOfDays
             PROVE  LET from == range[1]
                        to == range[2]
                        bots == MapBotActivity(BotReviewActivity(BOT_LOGINS, from, to))
                        people == HumanReviewActivity(BOT_LOGINS, from, to)
                        stray == {e \in Asked(from, to) : e.login[2] /\ e.login \notin BOT_LOGINS}
                        found == BotPREvents(BOT_LOGINS, from, to)
                    IN /\ \A k \in Kinds : SumOf(bots, k) + SumOf(people, k) + CountIf(stray, k)
                                             = CountIf(Asked(from, to), k)
                       /\ \A r, s \in bots : r # s => <<r.week, r.bot>> # <<s.week, s.bot>>
                       /\ \A stream \in {SetToSeq(found), Reverse(SetToSeq(found))}, size \in 1 .. 3 :
                            Discovered(stream, size) = MapPrBotEvents(found)
                       /\ \A r \in bots, k \in Kinds :
                            Cardinality({d \in MapPrBotEvents(found) :
                              d.bot = r.bot /\ d.week = r.week /\ d.type = TypeOf[k]}) <= r.n[k]
                       /\ \A d \in MapPrBotEvents(found) : \E r \in bots :
                            r.bot = d.bot /\ r.week = d.week
  BY DEF CountedForOne
<1> DEFINE from == range[1]
           to == range[2]
           bots == MapBotActivity(BotReviewActivity(BOT_LOGINS, from, to))
           people == HumanReviewActivity(BOT_LOGINS, from, to)
           stray == {e \in Asked(from, to) : e.login[2] /\ e.login \notin BOT_LOGINS}
           found == BotPREvents(BOT_LOGINS, from, to)
<1>1. ASSUME NEW k \in Kinds
      PROVE  SumOf(bots, k) + SumOf(people, k) + CountIf(stray, k) = CountIf(Asked(from, to), k)
  <2>1. SumOf(bots, k) = CountIf(OfBots(from, to), k)
    BY RowsOfBots, RowsOfLogins
  <2>2. SumOf(people, k) = CountIf(OfPeople(from, to), k)
    BY RowsOfPeople
  <2>3. stray = OfStrays(from, to)
    BY DEF OfStrays
  <2> HIDE DEF bots, people, stray, from, to
  <2> QED BY <2>1, <2>2, <2>3, ThreeKinds
<1>2. \A r, s \in bots : r # s => <<r.week, r.bot>> # <<s.week, s.bot>>
  <2>1. \A x \in bots : x = BotRow(BotReviewActivity(BOT_LOGINS, from, to), x.week, x.bot)
    BY RowsOfBots
  <2> HIDE DEF bots, from, to
  <2> QED BY <2>1
<1>3. ASSUME NEW stream \in {SetToSeq(found), Reverse(SetToSeq(found))}, NEW size \in 1 .. 3
      PROVE  Discovered(stream, size) = MapPrBotEvents(found)
  <2>1. IsFiniteSet(found)
    <3> DEFINE E == {x \in Asked(from, to) : x.login \in BOT_LOGINS /\ x.pr # 0}
               f == [e \in E |-> [repo |-> e.repo, pr |-> e.pr, login |-> e.login,
                                  type |-> e.type, week |-> MondayOf(e.day)]]
    <3>1. found = {f[e] : e \in E}
      BY DEF BotPREvents
    <3>2. IsFiniteSet(Asked(from, to)) /\ E \in SUBSET Asked(from, to)
      BY ThreeKinds
    <3> HIDE DEF E, f, found, from, to
    <3>3. IsFiniteSet(E)
      BY <3>2, FS_Subset
    <3> QED BY <3>1, <3>3, FiniteRange
  <2> HIDE DEF found
  <2>2. stream \in Seq(found) /\ Range(stream) = found
    BY <2>1, SequenceOf
  <2> QED BY <2>2, BatchesDoNotMatter
<1>4. /\ \A r \in bots, k \in Kinds :
           Cardinality({d \in MapPrBotEvents(found) :
             d.bot = r.bot /\ d.week = r.week /\ d.type = TypeOf[k]}) <= r.n[k]
      /\ \A d \in MapPrBotEvents(found) : \E r \in bots : r.bot = d.bot /\ r.week = d.week
  BY NumbersAnnounce
<1> QED BY <1>1, <1>2, <1>3, <1>4

-----------------------------------------------------------------------------
(* pipeline status and the status page *)

LEMMA LatestOf ==
  ASSUME NEW S \in SUBSET Int, IsFiniteSet(S)
  PROVE  /\ Latest(S) \in S \cup {NoDate} /\ NoDate <= Latest(S) /\ \A x \in S : x <= Latest(S)
         /\ Earliest(S) \in S \cup {NoDate} /\ (S # {} => Earliest(S) \in S)
         /\ \A x \in S : Earliest(S) <= x
<1>1. NoDate \in Int
  BY HealthAssumption
<1>2. IsFiniteSet(S \cup {NoDate}) /\ S \cup {NoDate} \in SUBSET Int /\ S \cup {NoDate} # {}
  BY <1>1, FS_AddElement
<1>3. Latest(S) \in S \cup {NoDate} /\ \A x \in S \cup {NoDate} : x <= Latest(S)
  BY <1>2, MaxMin DEF Latest
<1>4. CASE S = {}
  BY <1>3, <1>4 DEF Earliest
<1>5. CASE S # {}
  <2>1. Min(S) \in S /\ \A x \in S : Min(S) <= x
    BY <1>5, MaxMin
  <2> QED BY <1>3, <1>5, <2>1 DEF Earliest
<1> QED BY <1>4, <1>5

LEMMA Mondays ==
  ASSUME NEW a \in Int, NEW b \in Int
  PROVE  IsFiniteSet(MondaysBetween(a, b)) /\ MondaysBetween(a, b) \subseteq a .. b
<1>1. IsFiniteSet(a .. b)
  BY FS_Interval
<1> QED BY <1>1, FS_Subset DEF MondaysBetween

\* The weeks of a table that is in order, and the first and the last of them.
LEMMA Stored ==
  ASSUME IntakeOK(intake), Regular
  PROVE  /\ StoredWeeks \in SUBSET Int /\ IsFiniteSet(StoredWeeks) /\ intake.today \in Int
         /\ \A w \in StoredWeeks : /\ w \in Int /\ w % 7 = 0 /\ Epoch <= w /\ w <= intake.today
                                   /\ Earliest(StoredWeeks) <= w /\ w <= Latest(StoredWeeks)
         /\ Earliest(StoredWeeks) \in Int /\ Latest(StoredWeeks) \in Int
         /\ StoredWeeks = {} => Earliest(StoredWeeks) = NoDate /\ Latest(StoredWeeks) = NoDate
         /\ StoredWeeks # {} => Earliest(StoredWeeks) \in StoredWeeks /\ Latest(StoredWeeks) \in StoredWeeks
         /\ NoDate \in Int /\ Epoch \in Int /\ NoDate < Epoch /\ Epoch < intake.today
<1> DEFINE f == [r \in intake.activity |-> r.week]
<1>1. StoredWeeks \in SUBSET Int /\ intake.today \in Int
      /\ \A w \in StoredWeeks : w \in Int /\ w % 7 = 0 /\ Epoch <= w /\ w <= intake.today
  BY HealthAssumption DEF StoredWeeks, IntakeOK, Regular
<1>2. IsFiniteSet(StoredWeeks)
  <2>1. f \in Surjection(intake.activity, StoredWeeks)
    BY DEF Surjection, StoredWeeks
  <2> QED BY <2>1, FS_Surjection DEF IntakeOK
<1>3. NoDate \in Int /\ Epoch \in Int /\ NoDate < Epoch /\ Epoch < intake.today
  BY HealthAssumption DEF IntakeOK
<1>4. /\ Latest(StoredWeeks) \in StoredWeeks \cup {NoDate} /\ NoDate <= Latest(StoredWeeks)
      /\ \A x \in StoredWeeks : x <= Latest(StoredWeeks)
      /\ Earliest(StoredWeeks) \in StoredWeeks \cup {NoDate}
      /\ (StoredWeeks # {} => Earliest(StoredWeeks) \in StoredWeeks)
      /\ \A x \in StoredWeeks : Earliest(StoredWeeks) <= x
  BY <1>1, <1>2, LatestOf
<1>5. ASSUME StoredWeeks # {} PROVE Latest(StoredWeeks) \in StoredWeeks
  <2>1. PICK w \in StoredWeeks : TRUE
    BY <1>5
  <2>2. Latest(StoredWeeks) # NoDate
    BY <1>1, <1>3, <1>4, <2>1
  <2> QED BY <1>4, <2>2
<1> QED BY <1>1, <1>2, <1>3, <1>4, <1>5

\* The report and the panel, with the names of their parts.
Oldest == Earliest(StoredWeeks)
Newest == Latest(StoredWeeks)
Missing == MondaysBetween(Oldest, Newest) \ StoredWeeks
Present == {w \in StoredWeeks : w >= Epoch}
Expected == MondaysBetween(Epoch, intake.today)

LEMMA ReportParts ==
  /\ StatusReport.missingWeeks = Missing /\ StatusReport.firstWeek = Oldest
  /\ StatusReport.latestWeek = Newest /\ StatusReport.totalWeeks = Cardinality(StoredWeeks)
  /\ StatusReport.expectedWeeks = Cardinality(MondaysBetween(Oldest, Newest))
  /\ StatusReport.backfill = BackfillReport /\ StatusReport.bots = BotsReport
  /\ (CheckFails <=> ~(intake.today - Newest <= MaxAge /\ Missing = {}))
BY DEF StatusReport, CheckFails, Oldest, Newest, Missing

LEMMA PanelParts ==
  /\ Panel.noData <=> (Present = {} /\ intake.work["repos"].total = 0)
  /\ Panel.missingWeeks = Expected \ Present /\ Panel.expected = Cardinality(Expected)
  /\ Panel.covered = Cardinality(Expected \cap Present)
  /\ Panel.range = <<Earliest(Present), Latest(Present)>>
  /\ Panel.lastImport = Latest({c.at : c \in {d \in intake.chunks : d.at <= intake.today + 1}})
  /\ Panel.cards = [c \in DOMAIN intake.work |-> Card(intake.work[c])]
BY DEF Panel, Present, Expected

LEMMA AllPresent ==
  ASSUME IntakeOK(intake), Regular
  PROVE  Present = StoredWeeks /\ StoredWeeks \subseteq Expected
BY Stored DEF Present, Expected, MondaysBetween

\* Without a gap up to day s, the newest week is the one of s.
LEMMA UpToDate ==
  ASSUME IntakeOK(intake), Regular, NEW s \in (intake.today - 2 * MaxAge) .. intake.today,
         StoredWeeks # {}, StoredWeeks = MondaysBetween(Oldest, s)
  PROVE  /\ intake.today - s <= MaxAge - 6 => ~CheckFails
         /\ intake.today - s > MaxAge => CheckFails
<1>1. /\ Oldest \in Int /\ Newest \in Int /\ Newest \in StoredWeeks /\ Newest % 7 = 0
      /\ intake.today \in Int /\ MaxAge \in Nat /\ s \in Int
      /\ \A w \in StoredWeeks : w <= Newest
  BY Stored, HealthAssumption DEF Oldest, Newest
<1>2. Oldest <= Newest /\ Newest <= s
  BY <1>1 DEF MondaysBetween
<1>3. s < Newest + 7
  <2> SUFFICES ASSUME Newest + 7 <= s PROVE FALSE
    BY <1>1
  <2>1. Newest + 7 \in Oldest .. s /\ (Newest + 7) % 7 = 0
    BY <1>1, <1>2
  <2>2. Newest + 7 \in StoredWeeks
    BY <2>1 DEF MondaysBetween
  <2> QED BY <1>1, <2>2
<1>4. Missing = {}
  <2>1. \A d \in Oldest .. Newest : d \in Oldest .. s
    BY <1>1, <1>2
  <2> QED BY <2>1 DEF Missing, MondaysBetween
<1>5. /\ intake.today - s <= MaxAge - 6 => intake.today - Newest <= MaxAge
      /\ intake.today - s > MaxAge => ~(intake.today - Newest <= MaxAge)
  BY <1>1, <1>2, <1>3
<1> QED BY <1>4, <1>5, ReportParts

LEMMA GapsShow ==
  ASSUME IntakeOK(intake), Regular
  PROVE  /\ \A v, w \in StoredWeeks, d \in Expected :
              v < d /\ d < w /\ d \notin StoredWeeks => CheckFails
         /\ Missing = {d \in Expected \ Present : Oldest <= d /\ d <= Newest}
<1>1. Oldest \in Int /\ Newest \in Int /\ Epoch \in Int /\ intake.today \in Int
  BY Stored DEF Oldest, Newest
<1>2. ASSUME NEW v \in StoredWeeks, NEW w \in StoredWeeks, NEW d \in Expected,
             v < d, d < w, d \notin StoredWeeks
      PROVE  CheckFails
  <2>1. v \in Int /\ w \in Int /\ Oldest <= v /\ w <= Newest
    BY Stored DEF Oldest, Newest
  <2>2. d \in Int /\ d % 7 = 0
    BY <1>1 DEF Expected, MondaysBetween
  <2>3. d \in Oldest .. Newest
    BY <1>1, <1>2, <2>1, <2>2
  <2>4. d \in Missing
    BY <1>2, <2>2, <2>3 DEF Missing, MondaysBetween
  <2> QED BY <2>4, ReportParts
<1>3. CASE StoredWeeks = {}
  <2>1. Oldest = NoDate /\ Newest = NoDate /\ NoDate < Epoch /\ NoDate \in Int /\ NoDate % 7 = 3
    BY <1>3, Stored, HealthAssumption DEF Oldest, Newest
  <2>2. Missing = {}
    BY <2>1 DEF Missing, MondaysBetween
  <2>3. \A d \in Expected : ~(Oldest <= d /\ d <= Newest)
    BY <1>1, <2>1 DEF Expected, MondaysBetween
  <2> QED BY <1>2, <2>2, <2>3
<1>4. CASE StoredWeeks # {}
  <2>1. Epoch <= Oldest /\ Newest <= intake.today
    BY <1>4, Stored DEF Oldest, Newest
  <2>2. \A d \in Int : d \in Oldest .. Newest <=> (d \in Epoch .. intake.today /\ Oldest <= d /\ d <= Newest)
    BY <1>1, <2>1
  <2>3. MondaysBetween(Oldest, Newest) \subseteq Int /\ Expected \subseteq Int
    BY <1>1 DEF MondaysBetween, Expected
  <2>4. \A d \in Int : d \in MondaysBetween(Oldest, Newest)
                         <=> (d \in Expected /\ Oldest <= d /\ d <= Newest)
    BY <2>2 DEF MondaysBetween, Expected
  <2>5. Missing = {d \in Expected \ Present : Oldest <= d /\ d <= Newest}
    BY <2>3, <2>4, AllPresent DEF Missing
  <2> QED BY <1>2, <2>5
<1> QED BY <1>3, <1>4

LEMMA WeeksAddUp ==
  ASSUME IntakeOK(intake), Regular
  PROVE  /\ Cardinality(StoredWeeks) = Cardinality(MondaysBetween(Oldest, Newest)) - Cardinality(Missing)
         /\ Cardinality(Expected \cap Present) + Cardinality(Expected \ Present) = Cardinality(Expected)
<1>1. Oldest \in Int /\ Newest \in Int /\ Epoch \in Int /\ intake.today \in Int
  BY Stored DEF Oldest, Newest
<1>2. IsFiniteSet(Expected) /\ IsFiniteSet(MondaysBetween(Oldest, Newest))
  BY <1>1, Mondays DEF Expected
<1>3. MondaysBetween(Oldest, Newest) \cap StoredWeeks = StoredWeeks
  <2>1. \A w \in StoredWeeks : w \in Oldest .. Newest /\ w % 7 = 0
    BY <1>1, Stored DEF Oldest, Newest
  <2> QED BY <2>1 DEF MondaysBetween
<1>4. Cardinality(Missing) = Cardinality(MondaysBetween(Oldest, Newest)) - Cardinality(StoredWeeks)
      /\ Cardinality(StoredWeeks) \in Nat /\ Cardinality(MondaysBetween(Oldest, Newest)) \in Nat
  BY <1>2, <1>3, Counted DEF Missing
<1>5. /\ Cardinality(Expected \ Present) = Cardinality(Expected) - Cardinality(Expected \cap Present)
      /\ Cardinality(Expected) \in Nat /\ Cardinality(Expected \cap Present) \in Nat
  BY <1>2, Counted
<1> QED BY <1>4, <1>5

\* Wherever the check fails, the page shows it.
LEMMA PageAlarms ==
  ASSUME IntakeOK(intake), Regular
  PROVE  /\ CheckFails /\ MaxAge >= 13 => Expected \ Present # {}
         /\ Present = {} => CheckFails
<1>1. /\ Oldest \in Int /\ Newest \in Int /\ Epoch \in Int /\ intake.today \in Int /\ MaxAge \in Nat
      /\ NoDate \in Int /\ NoDate + MaxAge < Epoch /\ Epoch % 7 = 6 /\ Epoch < intake.today
  BY Stored, HealthAssumption DEF Oldest, Newest
<1>2. ASSUME Present = {} PROVE CheckFails
  <2>1. Newest = NoDate
    BY <1>2, AllPresent, Stored DEF Newest
  <2> QED BY <1>1, <2>1, ReportParts
<1>3. ASSUME CheckFails, MaxAge >= 13 PROVE Expected \ Present # {}
  <2>1. CASE StoredWeeks = {}
    <3>1. Epoch + 1 \in Epoch .. intake.today /\ (Epoch + 1) % 7 = 0
      BY <1>1
    <3>2. Epoch + 1 \in Expected
      BY <3>1 DEF Expected, MondaysBetween
    <3> QED BY <2>1, <3>2 DEF Present
  <2>2. CASE StoredWeeks # {} /\ Missing # {}
    BY <2>2, GapsShow
  <2>3. CASE StoredWeeks # {} /\ intake.today - Newest > MaxAge
    <3>1. Newest % 7 = 0 /\ Epoch <= Newest /\ Newest + 7 <= intake.today
      BY <1>1, <1>3, <2>3, Stored DEF Newest
    <3>2. Newest + 7 \in Epoch .. intake.today /\ (Newest + 7) % 7 = 0
      BY <1>1, <3>1
    <3>3. Newest + 7 \in Expected
      BY <3>2 DEF Expected, MondaysBetween
    <3>4. Newest + 7 \notin StoredWeeks
      BY <1>1, Stored DEF Newest
    <3> QED BY <3>3, <3>4 DEF Present
  <2>4. Missing # {} \/ intake.today - Newest > MaxAge
    BY <1>1, <1>3, ReportParts
  <2> QED BY <2>1, <2>2, <2>3, <2>4
<1> QED BY <1>2, <1>3

LEMMA BotsWithin ==
  ASSUME IntakeOK(intake), Regular, NEW b \in DOMAIN BotsReport
  PROVE  BotsReport[b].weeksWithData <= Cardinality(StoredWeeks)
<1> DEFINE own == {r.week : r \in {q \in intake.activity : q.bot = b}}
<1>1. BotsReport[b].weeksWithData = Cardinality(own)
  BY DEF BotsReport
<1>2. own \subseteq StoredWeeks
  BY DEF StoredWeeks
<1> QED BY <1>1, <1>2, Stored, FS_Subset

LEMMA LastImport ==
  ASSUME IntakeOK(intake), \A c \in intake.chunks : c.at <= intake.today + 1
  PROVE  Latest({c.at : c \in {d \in intake.chunks : d.at <= intake.today + 1}})
           = BackfillReport.lastRunAt
<1> DEFINE ends == {c.last : c \in intake.chunks}
           at == {c.at : c \in intake.chunks}
<1>1. {d \in intake.chunks : d.at <= intake.today + 1} = intake.chunks
  OBVIOUS
<1>2. BackfillReport.lastRunAt = IF Latest(ends) = NoDate THEN NoDate ELSE Latest(at)
  BY DEF BackfillReport
<1>3. NoDate \in Int /\ Epoch \in Int /\ NoDate < Epoch
  BY HealthAssumption
<1>4. CASE intake.chunks = {}
  <2>1. at = {} /\ {} \in SUBSET Int /\ IsFiniteSet({})
    BY <1>4, FS_EmptySet
  <2>2. Latest({}) \in {} \cup {NoDate}
    BY <2>1, LatestOf
  <2> QED BY <1>1, <1>2, <2>1, <2>2
<1>5. CASE intake.chunks # {}
  <2> DEFINE f == [c \in intake.chunks |-> c.last]
  <2>1. f \in Surjection(intake.chunks, ends)
    BY DEF Surjection
  <2>2. IsFiniteSet(ends) /\ ends \in SUBSET Int
    BY <2>1, FS_Surjection DEF IntakeOK
  <2>3. PICK c \in intake.chunks : c.last \in Int /\ Epoch <= c.last
    BY <1>5 DEF IntakeOK
  <2>4. c.last <= Latest(ends) /\ Latest(ends) \in ends \cup {NoDate}
    BY <2>2, <2>3, LatestOf
  <2>5. Latest(ends) # NoDate
    BY <1>3, <2>2, <2>3, <2>4
  <2> QED BY <1>1, <1>2, <2>5
<1> QED BY <1>4, <1>5

\* A bar is full when as many are processed as there are.
LEMMA FullBar ==
  ASSUME NEW t \in Nat, NEW p \in Nat, t > 0
  PROVE  (1000 * p) \div t \in Int /\ ((1000 * p) \div t >= 1000 <=> p >= t)
<1> DEFINE q == (1000 * p) \div t
           r == (1000 * p) % t
<1>1. q \in Int /\ r \in 0 .. t - 1 /\ 1000 * p = t * q + r
  OBVIOUS
<1> HIDE DEF q, r
<1>2. ASSUME q >= 1000 PROVE p >= t
  <2>1. t * q >= t * 1000
    BY <1>1, <1>2
  <2> QED BY <1>1, <2>1
<1>3. ASSUME q < 1000 PROVE p < t
  <2>1. q <= 999
    BY <1>1, <1>3
  <2>2. t * q <= t * 999
    BY <1>1, <2>1
  <2>3. 1000 * p < t * 999 + t
    BY <1>1, <2>2
  <2> QED BY <2>3
<1>4. (q >= 1000 <=> p >= t) /\ q \in Int
  BY <1>1, <1>2, <1>3
<1> QED BY <1>4 DEF q

LEMMA Cards ==
  ASSUME IntakeOK(intake), NEW c \in DOMAIN intake.work, intake.work[c].total > 0
  PROVE  Card(intake.work[c]).bar = 1000 <=> Card(intake.work[c]).pending = 0
<1> DEFINE t == intake.work[c].total
           s == intake.work[c].success
           u == intake.work[c].unreachable
<1>1. t \in Nat /\ s \in Nat /\ u \in Nat /\ t > 0
  BY DEF IntakeOK
<1>2. /\ Card(intake.work[c]).bar = Min({(1000 * (s + u)) \div t, 1000})
      /\ Card(intake.work[c]).pending = Max({0, t - s - u})
  BY <1>1 DEF Card
<1> HIDE DEF t, s, u
<1>3. /\ (1000 * (s + u)) \div t \in Int /\ ((1000 * (s + u)) \div t >= 1000 <=> s + u >= t)
  <2>1. s + u \in Nat
    BY <1>1
  <2> QED BY <1>1, <2>1, FullBar
<1>4. Min({(1000 * (s + u)) \div t, 1000}) = 1000 <=> (1000 * (s + u)) \div t >= 1000
  <2> DEFINE q == (1000 * (s + u)) \div t
  <2>1. q \in Int
    BY <1>3
  <2> HIDE DEF q
  <2>2. Min({q, 1000}) = (IF q <= 1000 THEN q ELSE 1000)
    BY <2>1, SmallOf
  <2>3. Min({q, 1000}) = 1000 <=> q >= 1000
    BY <2>1, <2>2
  <2> QED BY <2>3 DEF q
<1>5. Max({0, t - s - u}) = 0 <=> s + u >= t
  <2> DEFINE n == t - s - u
  <2>1. n \in Int /\ (n <= 0 <=> s + u >= t)
    BY <1>1
  <2> HIDE DEF n
  <2>2. Max({0, n}) = (IF 0 <= n THEN n ELSE 0)
    BY <2>1, SmallOf
  <2>3. Max({0, n}) = 0 <=> n <= 0
    BY <2>1, <2>2
  <2> QED BY <2>1, <2>3 DEF n
<1> QED BY <1>2, <1>3, <1>4, <1>5

\* For any stored weeks, backfill chunks and counts of work, any day and any --max-age:
\* pipeline status --check (pipeline/src/tools/status.ts) fails when it should and only then,
\* and the panel of the status page shows what it fails for.
THEOREM AlarmsAreRight == intake \in Intakes => HealthAlarms
<1>1. SUFFICES ASSUME intake \in Intakes, Regular PROVE HealthAlarms
  BY DEF HealthAlarms
<1>2. IntakeOK(intake)
  BY <1>1, IntakesAssumption
<1>3. \A s \in (intake.today - 2 * MaxAge) .. intake.today :
        /\ StoredWeeks # {} /\ StoredWeeks = MondaysBetween(Earliest(StoredWeeks), s) =>
             /\ intake.today - s <= MaxAge - 6 => ~CheckFails
             /\ intake.today - s > MaxAge => CheckFails
  BY <1>1, <1>2, UpToDate DEF Oldest
<1>4. \A v, w \in StoredWeeks, d \in MondaysBetween(Epoch, intake.today) :
        v < d /\ d < w /\ d \notin StoredWeeks => CheckFails
  BY <1>1, <1>2, GapsShow DEF Expected
<1>5. StatusReport.missingWeeks
        = {d \in Panel.missingWeeks : StatusReport.firstWeek <= d /\ d <= StatusReport.latestWeek}
  BY <1>1, <1>2, GapsShow, ReportParts, PanelParts
<1>6. /\ StatusReport.totalWeeks = StatusReport.expectedWeeks - Cardinality(StatusReport.missingWeeks)
      /\ Panel.covered + Cardinality(Panel.missingWeeks) = Panel.expected
  BY <1>1, <1>2, WeeksAddUp, ReportParts, PanelParts
<1>7. /\ CheckFails /\ MaxAge >= 13 => Panel.missingWeeks # {}
      /\ Panel.noData => CheckFails
  BY <1>1, <1>2, PageAlarms, PanelParts
<1>8. StoredWeeks # {} => Panel.range = <<StatusReport.firstWeek, StatusReport.latestWeek>>
  BY <1>1, <1>2, AllPresent, ReportParts, PanelParts DEF Oldest, Newest
<1>9. \A b \in DOMAIN StatusReport.bots : StatusReport.bots[b].weeksWithData <= StatusReport.totalWeeks
  BY <1>1, <1>2, BotsWithin, ReportParts
<1>10. (\A c \in intake.chunks : c.at <= intake.today + 1) =>
         Panel.lastImport = StatusReport.backfill.lastRunAt
  BY <1>2, LastImport, ReportParts, PanelParts
<1>11. \A c \in DOMAIN Panel.cards : intake.work[c].total > 0 =>
         (Panel.cards[c].bar = 1000 <=> Panel.cards[c].pending = 0)
  BY <1>2, Cards, PanelParts
<1> QED BY <1>3, <1>4, <1>5, <1>6, <1>7, <1>8, <1>9, <1>10, <1>11 DEF HealthAlarms

-----------------------------------------------------------------------------
(* discover-bots *)

\* What the two strategies find.
Scanned(source) == IF source = "marketplace only" THEN {} ELSE BotReviewers(0, LastDay)
AppsFound(source) == IF source = "bigquery only" THEN {} ELSE UNION {Resolved(s) : s \in archive.slugs}
Candidates(source) == (AppsFound(source) \X BOOLEAN) \ Scanned(source)
ListedIn(source) == IF source = "marketplace only" THEN Candidates(source)
                    ELSE ActiveOf(Candidates(source), 0, LastDay)

LEMMA ResultParts ==
  ASSUME NEW source
  PROVE  /\ DOMAIN Results(source, 0, LastDay) = Scanned(source) \cup ListedIn(source)
         /\ \A l \in Scanned(source) \cup ListedIn(source) : Results(source, 0, LastDay)[l] =
              IF l \in ListedIn(source) THEN "found" ELSE ResolveViaApi("verify", l[1])
BY DEF Results, Scanned, ListedIn, Candidates, AppsFound

LEMMA Answers ==
  ASSUME NEW stage, NEW slug
  PROVE  /\ ResolveViaApi(stage, slug) = "found" <=>
              (<<stage, slug>> \notin archive.errors /\ slug \in archive.apps)
         /\ ResolveViaApi(stage, slug) = "not_found" => slug \notin archive.apps
         /\ ResolveViaApi(stage, slug) \notin {"found", "not_found"} => <<stage, slug>> \in archive.errors
BY DEF ResolveViaApi

LEMMA ResolvedAreApps ==
  ASSUME NEW slug
  PROVE  Resolved(slug) \subseteq archive.apps
<1>1. CASE ResolveViaApi("resolve", slug) = "found"
  BY <1>1, Answers DEF Resolved
<1>2. CASE ResolveViaApi("resolve", slug) # "found"
  <2> DEFINE names == PageCandidates(slug)
             found == {i \in DOMAIN names : ResolveViaApi("resolve", names[i]) = "found"}
  <2>1. Resolved(slug) = {names[i] : i \in {j \in found : \A k \in found : j <= k}}
    BY <1>2 DEF Resolved
  <2>2. \A i \in found : names[i] \in archive.apps
    BY Answers
  <2> QED BY <2>1, <2>2
<1> QED BY <1>1, <1>2

\* A scanned account has more than Busy events, and an active one at least one.
LEMMA HaveEvents ==
  ASSUME archive \in Archives, NEW l
  PROVE  /\ l \in BotReviewers(0, LastDay) => EventsBy(l, 0, LastDay) > 0
         /\ (\E e \in Asked(0, LastDay) : e.login = l) => EventsBy(l, 0, LastDay) > 0
<1> DEFINE own == {e \in Asked(0, LastDay) : e.login = l}
<1>1. own \subseteq archive.events /\ IsFiniteSet(archive.events)
  BY ArchivesAssumption DEF Asked
<1>2. IsFiniteSet(own) /\ Cardinality(own) \in Nat
  BY <1>1, FS_Subset, FS_CardinalityType
<1>3. EventsBy(l, 0, LastDay) = Cardinality(own)
  BY DEF EventsBy
<1>4. own # {} => Cardinality(own) > 0
  <2> HIDE DEF own
  <2> QED BY <1>2, FS_EmptySet
<1>5. l \in BotReviewers(0, LastDay) => EventsBy(l, 0, LastDay) > Busy
  BY DEF BotReviewers
<1>6. Busy \in Nat
  BY DiscoveryAssumption
<1>7. (\E e \in Asked(0, LastDay) : e.login = l) => own # {}
  OBVIOUS
<1> QED BY <1>2, <1>3, <1>4, <1>5, <1>6, <1>7

LEMMA ListedAreApps ==
  ASSUME NEW source, NEW l \in ListedIn(source)
  PROVE  l \in Candidates(source) /\ l[1] \in AppsFound(source) /\ l[1] \in archive.apps
<1>1. l \in Candidates(source)
  BY DEF ListedIn, ActiveOf
<1>2. l[1] \in AppsFound(source)
  BY <1>1 DEF Candidates
<1>3. AppsFound(source) \subseteq archive.apps
  BY ResolvedAreApps DEF AppsFound
<1> QED BY <1>1, <1>2, <1>3

LEMMA ScannedAreLogins ==
  ASSUME archive \in Archives
  PROVE  /\ BotReviewers(0, LastDay) \subseteq AccountsOf
         /\ \A l \in AccountsOf : l = <<l[1], l[2]>> /\ l[2] \in BOOLEAN
<1>1. BotReviewers(0, LastDay) \subseteq AccountsOf
  BY DEF BotReviewers, AccountsOf, Asked
<1>2. ASSUME NEW l \in AccountsOf PROVE l = <<l[1], l[2]>> /\ l[2] \in BOOLEAN
  <2>1. PICK e \in archive.events : l = e.login
    BY DEF AccountsOf
  <2>2. l \in {l[1]} \X BOOLEAN
    BY <2>1, ArchivesAssumption
  <2> QED BY <2>2
<1> QED BY <1>1, <1>2

Failed(l) == \E stage \in {"resolve", "verify"} : <<stage, l[1]>> \in archive.errors

\* An unlisted account of an app, about which no lookup failed, is alerted if it is found.
LEMMA FoundAreNew ==
  ASSUME NEW source, NEW l \in Scanned(source) \cup ListedIn(source),
         l \notin BOT_LOGINS \cup Ignored, l[1] \in archive.apps, ~Failed(l)
  PROVE  l \in NewBots(Results(source, 0, LastDay))
<1>1. Results(source, 0, LastDay)[l] = "found"
  <2>1. ResolveViaApi("verify", l[1]) = "found"
    BY Answers DEF Failed
  <2> QED BY <2>1, ResultParts
<1> QED BY <1>1, ResultParts DEF NewBots, Unlisted

LEMMA Alerted ==
  ASSUME archive \in Archives, NEW source, NEW l \in NewBots(Results(source, 0, LastDay))
  PROVE  /\ l \notin BOT_LOGINS \cup Ignored /\ l[1] \in archive.apps
         /\ l \in Scanned(source) \cup ListedIn(source)
         /\ source # "marketplace only" => EventsBy(l, 0, LastDay) > 0
<1>1. /\ l \in Scanned(source) \cup ListedIn(source) /\ l \notin BOT_LOGINS \cup Ignored
      /\ Results(source, 0, LastDay)[l] = "found"
  BY ResultParts DEF NewBots, Unlisted
<1>2. l[1] \in archive.apps
  <2>1. CASE l \in ListedIn(source)
    BY <2>1, ListedAreApps
  <2>2. CASE l \notin ListedIn(source)
    <3>1. ResolveViaApi("verify", l[1]) = "found"
      BY <1>1, <2>2, ResultParts
    <3> QED BY <3>1, Answers
  <2> QED BY <2>1, <2>2
<1>3. ASSUME source # "marketplace only" PROVE EventsBy(l, 0, LastDay) > 0
  <2>1. CASE l \in ListedIn(source)
    BY <1>3, <2>1, HaveEvents DEF ListedIn, ActiveOf
  <2>2. CASE l \in Scanned(source)
    BY <1>3, <2>2, HaveEvents DEF Scanned
  <2> QED BY <1>1, <2>1, <2>2
<1> QED BY <1>1, <1>2, <1>3

\* One review is enough for an account of an app on the marketplace.
LEMMA MarketplaceAlerts ==
  ASSUME archive \in Archives, NEW source, source # "bigquery only",
         NEW l \in AccountsOf \ (BOT_LOGINS \cup Ignored), l[1] \in archive.apps, ~Failed(l),
         l \in ActiveOf({l}, 0, LastDay), l[1] \in archive.slugs
  PROVE  l \in NewBots(Results(source, 0, LastDay))
<1>1. l[1] \in AppsFound(source)
  <2>1. ResolveViaApi("resolve", l[1]) = "found"
    BY Answers DEF Failed
  <2>2. Resolved(l[1]) = {l[1]}
    BY <2>1 DEF Resolved
  <2>3. AppsFound(source) = UNION {Resolved(s) : s \in archive.slugs}
    BY DEF AppsFound
  <2> QED BY <2>2, <2>3
<1>2. l \in Scanned(source) \cup Candidates(source)
  <2>1. l \in AppsFound(source) \X BOOLEAN
    <3>1. l = <<l[1], l[2]>> /\ l[2] \in BOOLEAN
      BY ScannedAreLogins
    <3>2. <<l[1], l[2]>> \in AppsFound(source) \X BOOLEAN
      BY <1>1, <3>1
    <3> QED BY <3>1, <3>2
  <2> QED BY <2>1 DEF Candidates
<1>3. l \in Candidates(source) => l \in ListedIn(source)
  BY DEF ListedIn, ActiveOf
<1> QED BY <1>2, <1>3, FoundAreNew

\* What one strategy alerts, both do.
LEMMA BothAlert ==
  ASSUME archive \in Archives, NEW source \in {"marketplace only", "bigquery only"},
         NEW l \in NewBots(Results(source, 0, LastDay)), ~Failed(l), l \in ActiveOf({l}, 0, LastDay)
  PROVE  l \in NewBots(Results("both", 0, LastDay))
<1>1. l \notin BOT_LOGINS \cup Ignored /\ l[1] \in archive.apps
      /\ l \in Scanned(source) \cup ListedIn(source)
  BY Alerted
<1>2. l \in Scanned("both") \cup ListedIn("both")
  <2>1. CASE source = "bigquery only"
    <3>1. AppsFound(source) = {}
      BY <2>1 DEF AppsFound
    <3>2. l \in Scanned(source)
      BY <1>1, <3>1, ListedAreApps
    <3> QED BY <2>1, <3>2 DEF Scanned
  <2>2. CASE source = "marketplace only"
    <3>1. l \in ListedIn(source)
      BY <1>1, <2>2 DEF Scanned
    <3>2. l \in AppsFound(source) \X BOOLEAN
      BY <3>1, ListedAreApps DEF Candidates
    <3>3. AppsFound(source) = AppsFound("both")
      BY <2>2 DEF AppsFound
    <3>4. l \in Scanned("both") \cup Candidates("both")
      BY <3>2, <3>3 DEF Candidates
    <3>5. l \in Candidates("both") => l \in ListedIn("both")
      BY DEF ListedIn, ActiveOf
    <3> QED BY <3>4, <3>5
  <2> QED BY <2>1, <2>2
<1> QED BY <1>1, <1>2, FoundAreNew

\* For any events, logins, marketplace pages, apps and failing lookups: discover-bots
\* (pipeline/src/tools/discover-bots.ts) alerts for accounts of existing apps only, passes
\* over nothing because of a failure, and misses nothing because of the other strategy.
THEOREM AlertsHold == archive \in Archives => AlertsAreRight
<1>1. SUFFICES ASSUME archive \in Archives, NEW source \in Sources
               PROVE  LET results == Results(source, 0, LastDay)
                          new == NewBots(results)
                          failed(l) == \E stage \in {"resolve", "verify"} : <<stage, l[1]>> \in archive.errors
                          wanted == {l \in AccountsOf \ (BOT_LOGINS \cup Ignored) :
                                       l[1] \in archive.apps /\ ~failed(l)}
                      IN /\ \A l \in new : l \notin BOT_LOGINS \cup Ignored /\ l[1] \in archive.apps
                         /\ source # "marketplace only" => \A l \in new : EventsBy(l, 0, LastDay) > 0
                         /\ \A l \in SkippedBots(results) : l[1] \notin archive.apps
                         /\ \A l \in Unlisted(results) \ (new \cup SkippedBots(results)) : failed(l)
                         /\ source # "marketplace only" => BotReviewers(0, LastDay) \cap wanted \subseteq new
                         /\ source # "bigquery only" =>
                              {l \in ActiveOf(wanted, 0, LastDay) : l[1] \in archive.slugs} \subseteq new
                         /\ source # "both" =>
                              ActiveOf({l \in new : ~failed(l)}, 0, LastDay)
                                \subseteq NewBots(Results("both", 0, LastDay))
  BY DEF AlertsAreRight
<1> DEFINE results == Results(source, 0, LastDay)
           new == NewBots(results)
           failed(l) == \E stage \in {"resolve", "verify"} : <<stage, l[1]>> \in archive.errors
           wanted == {l \in AccountsOf \ (BOT_LOGINS \cup Ignored) : l[1] \in archive.apps /\ ~failed(l)}
<1>2. /\ \A l \in new : l \notin BOT_LOGINS \cup Ignored /\ l[1] \in archive.apps
      /\ source # "marketplace only" => \A l \in new : EventsBy(l, 0, LastDay) > 0
  BY <1>1, Alerted
<1>3. ASSUME NEW l \in Unlisted(results), l \notin new
      PROVE  results[l] = ResolveViaApi("verify", l[1]) /\ results[l] # "found"
  BY <1>3, ResultParts DEF NewBots, Unlisted
<1>4. \A l \in SkippedBots(results) : l[1] \notin archive.apps
  <2>1. \A l \in SkippedBots(results) : l \in Unlisted(results) /\ results[l] = "not_found" /\ l \notin new
    BY DEF SkippedBots, NewBots
  <2> HIDE DEF results, new
  <2>2. ASSUME NEW l \in SkippedBots(results)
        PROVE  ResolveViaApi("verify", l[1]) = "not_found"
    BY <1>3, <2>1
  <2>3. ASSUME NEW l \in SkippedBots(results)
        PROVE  l[1] \notin archive.apps
    BY <2>2, Answers
  <2> QED BY <2>3
<1>5. \A l \in Unlisted(results) \ (new \cup SkippedBots(results)) : failed(l)
  <2> SUFFICES ASSUME NEW l \in Unlisted(results), l \notin new, l \notin SkippedBots(results)
               PROVE  <<"verify", l[1]>> \in archive.errors
    OBVIOUS
  <2>1. results[l] # "not_found"
    BY DEF SkippedBots
  <2> QED BY <1>3, <2>1, Answers
<1>6. source # "marketplace only" => BotReviewers(0, LastDay) \cap wanted \subseteq new
  <2> SUFFICES ASSUME source # "marketplace only", NEW l \in BotReviewers(0, LastDay) \cap wanted
               PROVE  l \in new
    OBVIOUS
  <2>1. l \in Scanned(source) /\ ~Failed(l)
    BY DEF Scanned, Failed
  <2> QED BY <2>1, FoundAreNew
<1>7. source # "bigquery only" =>
        {l \in ActiveOf(wanted, 0, LastDay) : l[1] \in archive.slugs} \subseteq new
  <2> SUFFICES ASSUME source # "bigquery only", NEW l \in ActiveOf(wanted, 0, LastDay),
                      l[1] \in archive.slugs
               PROVE  l \in new
    OBVIOUS
  <2>1. l \in wanted /\ l \in ActiveOf({l}, 0, LastDay)
    BY DEF ActiveOf
  <2>2. ~Failed(l)
    BY <2>1 DEF Failed
  <2> QED BY <1>1, <2>1, <2>2, MarketplaceAlerts
<1>8. source # "both" => ActiveOf({l \in new : ~failed(l)}, 0, LastDay)
                           \subseteq NewBots(Results("both", 0, LastDay))
  <2> SUFFICES ASSUME source # "both", NEW l \in ActiveOf({k \in new : ~failed(k)}, 0, LastDay)
               PROVE  l \in NewBots(Results("both", 0, LastDay))
    OBVIOUS
  <2>1. l \in new /\ ~Failed(l) /\ l \in ActiveOf({l}, 0, LastDay)
    BY DEF ActiveOf, Failed
  <2>2. source \in {"marketplace only", "bigquery only"}
    BY DEF Sources
  <2> QED BY <1>1, <2>1, <2>2, BothAlert
<1> QED BY <1>2, <1>4, <1>5, <1>6, <1>7, <1>8
=============================================================================
