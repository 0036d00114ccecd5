-------------------------- MODULE VersionSelection --------------------------
(***************************************************************************)
(* Which version a run installs and which it upgrades to: ConfigureVersion *)
(* (src/pkg/common/cluster/clusterutil.go) over the selectors under        *)
(* src/pkg/common/versions, on the lists the providers make.               *)
(*                                                                         *)
(* A version is its minor, its patch and a rank for the rest: a nightly    *)
(* (1 the older, 2 the newer) comes before a candidate, a bare "nightly"   *)
(* suffix that no build has comes next, and the release last, as semver    *)
(* orders them.  There is one major version.                               *)
(*                                                                         *)
(* The version to upgrade to is what ManagedUpgrade is asked for; the two  *)
(* are read side by side in UpgradeProofs, so their names differ.          *)
(***************************************************************************)
EXTENDS Integers, Sequences, SequencesExt, FiniteSets, FiniteSetsExt

CONSTANTS
  Catalogues,  \* what a provider may list: sets of enabled versions
  Requests,    \* the options that a run may be started with
  None

Dated == {1, 2}
Candidate == 3
Bare == 4
Release == 5

Version == [minor : Nat, patch : Nat, pre : Dated \cup {Candidate, Bare, Release}]

Less(a, b) ==
  \/ a.minor < b.minor
  \/ a.minor = b.minor /\ a.patch < b.patch
  \/ a.minor = b.minor /\ a.patch = b.patch /\ a.pre < b.pre

Nightly(v) == v.pre \in Dated \cup {Bare}

Group(v) ==
  IF Nightly(v) THEN "nightly" ELSE IF v.pre = Candidate THEN "candidate" ELSE "stable"

Newest(versions) == CHOOSE v \in versions : \A w \in versions : ~Less(v, w)

\* An entry of a catalogue is a version, whether it is the default and what it can
\* be upgraded to.
Entry == [v : Version, default : BOOLEAN, edges : SUBSET Version]

\* No version is listed twice.
ASSUME CatalogueAssumption ==
  \A catalogue \in Catalogues :
    /\ IsFiniteSet(catalogue)
    /\ \A e \in catalogue :
         /\ e \in Entry /\ IsFiniteSet(e.edges)
         /\ \A f \in catalogue : e.v = f.v => e = f

\* The next release is asked for by how many minors after the default it is.
ASSUME RequestAssumption ==
  \A r \in Requests :
    /\ r.user \in Version \cup {None}
    /\ r.delta \in Int /\ ("next" \in r.asked => r.delta \in Nat)

ASSUME NoneAssumption == None \notin Version

VARIABLES
  request,        \* the options
  stage,          \* "poll", "upgrade", "judge", "done" or "panicked"
  list,           \* versionList
  clusterVersion, \* VersionSelector.clusterVersion
  published,      \* config.Cluster.Version
  flags,          \* EnoughVersionsForOldestOrMiddleTest, PreviousVersionFromDefaultFound
  upgrade,        \* config.Upgrade.ReleaseName
  verdict         \* what ConfigureVersion returns, the error as a flag

selectionVars == <<request, stage, list, clusterVersion, published, flags, upgrade, verdict>>

-----------------------------------------------------------------------------
(* The lists of the providers.                                             *)

\* SortVersions.
Ascending(entries) ==
  [i \in 1 .. Cardinality(entries) |-> CHOOSE e \in entries :
     Cardinality({f \in entries : Less(f.v, e.v)}) = i - 1]

Channel ==
  IF request.image # None \/ "specificNightly" \in request.asked
  THEN "nightly" ELSE request.channel

OCMVersions(catalogue) ==
  {Reverse(Ascending({e \in catalogue : Group(e.v) \in {"stable", Channel}}))}

\* The library's order is not the provider's to choose.
ROSAVersions(catalogue) == SetToSeqs({e \in catalogue : Group(e.v) = Channel})

Versions(catalogue) ==
  IF request.provider = "ocm" THEN OCMVersions(catalogue) ELSE ROSAVersions(catalogue)

-----------------------------------------------------------------------------
(* The install selectors.  An answer has the version, whether there was an *)
(* error, the list as the selector leaves it and the flags it lowers.      *)

Answer(v, l) == [version |-> v, err |-> v = None, list |-> l, lowers |-> {}]

\* Where the first of the wanted entries is in the list, or 0.
Place(l, wanted) ==
  LET at == {i \in DOMAIN l : l[i] \in wanted} IN IF at = {} THEN 0 ELSE Min(at)

First(l, wanted) == IF Place(l, wanted) = 0 THEN None ELSE l[Place(l, wanted)].v

NewestOf(versions) == IF versions = {} THEN None ELSE Newest(versions)

Defaults(l) == {e \in ToSet(l) : e.default}

DefaultOf(l) == First(l, Defaults(l))

\* Whoever removes the default looks for one version or sorts what remains.
RemoveDefault(l) == ToSet(l) \ Defaults(l)

\* The list as it comes: OCM's is descending, so a positive delta is an older
\* version.  Without a default the count starts before the list.
DeltaRelease(l) ==
  LET target == Place(l, Defaults(l)) + request.delta
      lowers == IF DefaultOf(l) = None \/ target \notin DOMAIN l THEN {"found"} ELSE {}
  IN  [version |-> IF target \in DOMAIN l THEN l[target].v ELSE None,
       err |-> FALSE, list |-> l, lowers |-> lowers]

LatestVersion(l) == Answer(NewestOf({e.v : e \in ToSet(l)}), Ascending(ToSet(l)))

\* Seeded fault: the last version that matches.
LastXY(l) == Answer(First(Reverse(l), {e \in ToSet(l) : e.v.minor = request.minor}), l)

\* The first version that matches, the newest if the list is descending.
LatestXY(l) == Answer(First(l, {e \in ToSet(l) : e.v.minor = request.minor}), l)

\* Every default starts the search for the next minor again, what was found stays.
LatestY(l) ==
  LET Before(a, b) == Less(a.v, b.v)
      follows(d, e) == /\ d.default /\ ~e.default /\ Before(d, e)
                       /\ ~\E o \in ToSet(l) : o.default /\ Before(d, o) /\ Before(o, e)
  IN  Answer(NewestOf({e.v : e \in {f \in ToSet(l) : \E d \in ToSet(l) :
                         follows(d, f) /\ f.v.minor = d.v.minor + 1}}),
             Ascending(ToSet(l)))

LatestYFromDelta(l) ==
  LET default == DefaultOf(l)
  IN  Answer(IF default = None THEN None
             ELSE First(l, {e \in ToSet(l) : e.v.minor = default.minor + request.delta}), l)

\* The last default in ascending order starts the search again.
LatestZ(l) ==
  LET default == NewestOf({e.v : e \in Defaults(l)})
  IN  Answer(IF default = None THEN None
             ELSE NewestOf({e.v : e \in {f \in ToSet(l) :
                              f.v.minor = default.minor /\ Less(default, f.v)}}),
             Ascending(ToSet(l)))

LatestZFromDelta(l) ==
  LET default == DefaultOf(l)
  IN  Answer(IF default = None THEN None
             ELSE First(l, {e \in ToSet(l) : /\ e.v.minor = default.minor
                                           /\ e.v.patch = default.patch + request.delta}), l)

\* The middle and the oldest want two versions beside the default; with fewer
\* there is neither a version nor an error.
RankedRelease(l, oldest) ==
  LET others == Ascending(RemoveDefault(l))
      short == Len(others) < 2
  IN  [version |-> IF short THEN None ELSE others[IF oldest THEN 1 ELSE Len(others) \div 2 + 1].v,
       err |-> FALSE, list |-> l, lowers |-> IF short THEN {"enough"} ELSE {}]

\* Nightlies stand for their release before anything else does.
Preferred(versions) ==
  LET nightlies == {v \in versions : Nightly(v)}
  IN  IF nightlies = {} THEN versions ELSE nightlies

\* NextReleaseAfterGivenVersionFromVersionList.
NextRelease(l) ==
  LET greatest(m) == Newest(Preferred({e.v : e \in {f \in ToSet(l) : f.v.minor = m}}))
      minors == {e.v.minor : e \in ToSet(l)}
      place(m) == Cardinality({n \in minors : n < m})
      default == DefaultOf(l)
  IN  IF default = None THEN Answer(None, l)
      ELSE LET next == {m \in minors : place(m) = place(default.minor) + request.delta}
           IN  Answer(IF next = {} THEN None ELSE greatest(CHOOSE m \in next : TRUE), l)

\* specific_image and triggered_nightlies: the very build, the default apart.
TheBuild(l) ==
  Answer(First(l, {e \in RemoveDefault(l) : e.v = request.image}), l)

SpecificNightly(l) ==
  Answer(NewestOf({e.v : e \in {f \in RemoveDefault(l) :
                     Nightly(f.v) /\ f.v.minor = request.minor}}), l)

-----------------------------------------------------------------------------

\* In the order of their files, which is that of their registration.
Registered == <<
  <<"default", 0>>, <<"delta", 50>>, <<"latest", 70>>, <<"xy", 60>>, <<"y", 70>>,
  <<"yDelta", 70>>, <<"z", 70>>, <<"zDelta", 70>>, <<"middle", 60>>, <<"next", 40>>,
  <<"oldest", 60>>, <<"specificImage", 90>>, <<"specificNightly", 60>>,
  <<"triggeredNightly", 100>> >>

\* The first of the highest priority.
Selector ==
  LET used == {i \in DOMAIN Registered :
                 Registered[i][1] \in request.asked \cup {"default"}}
      best == Max({Registered[i][2] : i \in used})
  IN  Registered[Min({i \in used : Registered[i][2] = best})][1]

SelectVersion(l) ==
  CASE Selector = "default" -> Answer(DefaultOf(l), l)
    [] Selector = "delta" -> DeltaRelease(l)
    [] Selector = "latest" -> LatestVersion(l)
    [] Selector = "xy" -> LatestXY(l)
    [] Selector = "y" -> LatestY(l)
    [] Selector = "yDelta" -> LatestYFromDelta(l)
    [] Selector = "z" -> LatestZ(l)
    [] Selector = "zDelta" -> LatestZFromDelta(l)
    [] Selector = "middle" -> RankedRelease(l, FALSE)
    [] Selector = "oldest" -> RankedRelease(l, TRUE)
    [] Selector = "next" -> NextRelease(l)
    [] Selector = "specificNightly" -> SpecificNightly(l)
    [] OTHER -> TheBuild(l)

\* The channel is appended to a version that does not name it.
Suffixed(v) ==
  IF Channel \in {"stable", Group(v)} THEN v
  ELSE [v EXCEPT !.pre = IF Channel = "nightly" THEN Bare ELSE Candidate]

Waits == Selector \in {"specificImage", "specificNightly", "triggeredNightly"}

-----------------------------------------------------------------------------
(* SelectClusterVersions and ConfigureVersion.                             *)

Fails ==
  /\ stage' = "done" /\ verdict' = [code |-> "Failure", err |-> TRUE]

PollFails ==
  /\ stage = "poll" /\ Fails
  /\ UNCHANGED <<request, list, clusterVersion, published, flags, upgrade>>

UserSupplied ==
  /\ stage = "poll" /\ request.user # None
  /\ \E catalogue \in Catalogues : list' \in Versions(catalogue)
  /\ clusterVersion' = request.user
  /\ stage' = "upgrade"
  /\ UNCHANGED <<request, published, flags, upgrade, verdict>>

\* A poll of the provider, whose list may be another one every time.  A nightly
\* that is not listed yet is waited for; whatever else is not found is given up.
\* A selector's error is not told from an empty answer, and the suffix of an
\* empty answer is taken of nothing.
PollVersions ==
  /\ stage = "poll" /\ request.user = None
  /\ \E catalogue \in Catalogues : \E l \in Versions(catalogue) :
       LET answer == SelectVersion(l)
           version == IF answer.version = None THEN None ELSE Suffixed(answer.version)
           lowered == flags \ answer.lowers
       IN  /\ list' = answer.list /\ flags' = lowered
           /\ clusterVersion' = version
           /\ published' = IF version # None /\ lowered = {"enough", "found"}
                           THEN version ELSE None
           /\ stage' = CASE version = None /\ ~answer.err /\ Channel # "stable" -> "panicked"
                      [] version = None /\ Waits -> "poll"
                      [] OTHER -> "upgrade"
  /\ UNCHANGED <<request, upgrade, verdict>>

-----------------------------------------------------------------------------

\* UpgradeToLatest, UpgradeToLatestY, UpgradeToLatestZ, of one priority: the
\* first that is asked for.
Eligible(v) ==
  CASE "latest" \in request.upgradeTo -> TRUE
    [] request.upgradeTo = {"z"} -> v.minor = clusterVersion.minor
    [] OTHER -> v.minor = clusterVersion.minor + 1

\* FindVersion: every listed build of the version, whatever its suffix.
FindVersion ==
  LET at == {i \in DOMAIN list : /\ list[i].v.minor = clusterVersion.minor
                                 /\ list[i].v.patch = clusterVersion.patch}
  IN  [k \in 1 .. Cardinality(at) |->
         list[CHOOSE i \in at : Cardinality({j \in at : j < i}) = k - 1]]

EligibleEdges(e) == {u \in e.edges : Eligible(u)}

\* Go walks the map of a build's upgrades in any order.
Walks ==
  LET builds == FindVersion
      orders == [i \in DOMAIN builds |-> SetToSeqs(EligibleEdges(builds[i]))]
  IN  {FlattenSeq(w) : w \in {f \in [DOMAIN builds -> UNION {orders[i] : i \in DOMAIN builds}] :
                                \A i \in DOMAIN builds : f[i] \in orders[i]}}

\* Seeded fault: the upgrade that is looked at last.
TakeLater(newest, v) == v

\* A nightly stands before whatever is none.
TakeNewer(newest, v) ==
  IF (Nightly(v) /\ ~Nightly(newest)) \/ Less(newest, v) THEN v ELSE newest

\* The version that a walk over them ends with.
WalkedTo(walk) ==
  LET after[n \in 0 .. Len(walk)] ==
        IF n = 0 THEN clusterVersion ELSE TakeNewer(after[n - 1], walk[n])
  IN  after[Len(walk)]

\* Whether the selector has found anything: the latest Z asks only for a change.
Found(v) ==
  IF request.upgradeTo = {"z"} THEN v # clusterVersion ELSE Less(clusterVersion, v)

SkipUpgrade ==
  /\ stage = "upgrade"
  /\ \/ request.preset \/ clusterVersion = None \/ request.upgradeTo = {}
  /\ stage' = "judge"
  /\ UNCHANGED <<request, list, clusterVersion, published, flags, upgrade, verdict>>

SetUpgradeVersion ==
  /\ stage = "upgrade"
  /\ ~request.preset /\ clusterVersion # None /\ request.upgradeTo # {}
  /\ \E walk \in Walks :
       LET newest == WalkedTo(walk)
       IN  IF Found(newest)
           THEN upgrade' = newest /\ stage' = "judge" /\ UNCHANGED verdict
           ELSE Fails /\ UNCHANGED upgrade
  /\ UNCHANGED <<request, list, clusterVersion, published, flags>>

\* NoVersionFound never gets here, its error having ended the selection.
Judge ==
  /\ stage = "judge"
  /\ stage' = "done"
  /\ verdict' =
       IF flags # {"enough", "found"} THEN [code |-> "Aborted", err |-> TRUE]
       ELSE IF published = None
       THEN [code |-> IF request.asked \cap {"y", "z"} # {} THEN "Success" ELSE "Aborted",
             err |-> TRUE]
       ELSE [code |-> "Success", err |-> FALSE]
  /\ UNCHANGED <<request, list, clusterVersion, published, flags, upgrade>>

SelectionInit ==
  /\ request \in Requests
  /\ stage = "poll" /\ list = << >>
  /\ clusterVersion = None /\ published = request.user
  /\ flags = {"enough", "found"}
  /\ upgrade = None
  /\ verdict = None

SelectionNext ==
  \/ PollFails \/ UserSupplied \/ PollVersions \/ SkipUpgrade \/ SetUpgradeVersion \/ Judge

SelectionSpec == SelectionInit /\ [][SelectionNext]_selectionVars

-----------------------------------------------------------------------------

Goes == verdict = [code |-> "Success", err |-> FALSE]

\* The minor that is so many after a listed one.
Ahead(minors, given, delta) ==
  CHOOSE m \in minors :
    m >= given /\ Cardinality({n \in minors : n > given /\ n <= m}) = delta

\* What the options describe, on OCM's list with one default in it.
Asked(entries) ==
  LET all == {e.v : e \in entries}
      default == (CHOOSE e \in entries : e.default).v
      others == all \ {default}
      newer(v, among) == Cardinality({w \in among : Less(v, w)})
      newest(among) == {v \in among : newer(v, among) = 0}
      minor(m) == {v \in all : v.minor = m}
      next == Ahead({v.minor : v \in all}, default.minor, request.delta)
  IN  CASE Selector = "default" -> {default}
        [] Selector = "delta" -> {v \in all : newer(v, all) = newer(default, all) + request.delta}
        [] Selector = "latest" -> newest(all)
        [] Selector = "xy" -> newest(minor(request.minor))
        [] Selector = "y" -> newest(minor(default.minor + 1))
        [] Selector = "yDelta" -> newest(minor(default.minor + request.delta))
        [] Selector = "z" -> newest(minor(default.minor)) \ {default}
        [] Selector = "zDelta" -> newest({v \in minor(default.minor) :
                                     v.patch = default.patch + request.delta})
        [] Selector = "middle" -> {v \in others :
                                     newer(v, others) = (Cardinality(others) - 1) \div 2}
        [] Selector = "oldest" -> {v \in others : \A w \in others : ~Less(w, v)}
        [] Selector = "next" -> newest(Preferred(minor(next)))
        [] Selector = "specificNightly" -> newest({v \in others :
                                              Nightly(v) /\ v.minor = request.minor})
        [] OTHER -> {request.image}

OneDefault == Cardinality(Defaults(list)) = 1

\* A run that goes ahead installs the version that was selected, the one its
\* options describe: of all the listed versions that match, not of the first few,
\* and for whichever of several options has the say.  The channel may have been
\* appended to it.  On the ROSA library's list, or with a default in each of two
\* channels, only that it was listed.
InstallAsAsked ==
  stage = "done" /\ Goes /\ request.user = None =>
    /\ published = clusterVersion
    /\ published \in {Suffixed(v) : v \in
         IF request.provider = "ocm" /\ OneDefault THEN Asked(ToSet(list))
         ELSE {e.v : e \in ToSet(list)}}

\* What the walk over the upgrades meets.
Edges == UNION {EligibleEdges(e) : e \in ToSet(FindVersion)}

\* An upgrade that was selected is an upgrade of a listed build of the version
\* that is installed, within the stream that was asked for.  It is to a newer version,
\* but for the latest Z of nightlies and others: a nightly stands for newer than
\* whatever is none, and all that is asked of the last is that it is not the version
\* installed.  Of nightlies only, or of others only, it is the newest such upgrade in
\* whatever order the map was walked.
UpgradeFollowsAnEdge ==
  stage = "done" /\ Goes /\ upgrade # None =>
    /\ upgrade \in Edges
    /\ \/ Less(clusterVersion, upgrade)
       \/ request.upgradeTo = {"z"} /\ \E u, w \in Edges \cup {clusterVersion} :
                                         Nightly(u) /\ ~Nightly(w)
    /\ Cardinality({Nightly(u) : u \in Edges}) = 1 => \A u \in Edges : ~Less(upgrade, u)
=============================================================================
