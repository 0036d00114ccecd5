------------------------- MODULE MCVersionSelection -------------------------
\* Three minors with releases, candidates and nightlies; a list with too few
\* versions, one without a default, one with defaults in two channels; upgrades to
\* nightlies, to releases and to both.
EXTENDS VersionSelection

V(minor, patch, pre) == [minor |-> minor, patch |-> patch, pre |-> pre]
E(v, default, edges) == [v |-> v, default |-> default, edges |-> edges]

Stable == {
  E(V(1, 1, Release), FALSE, {V(1, 2, Release), V(1, 3, Release), V(2, 0, Release)}),
  E(V(1, 2, Release), TRUE, {V(1, 3, Release), V(2, 0, Release), V(2, 1, Release)}),
  E(V(1, 3, Release), FALSE, {}),
  E(V(2, 0, Release), FALSE, {V(2, 1, Release)}),
  E(V(2, 1, Release), FALSE, {})}

Candidates == {
  E(V(1, 2, Candidate), FALSE, {V(2, 0, Candidate), V(3, 0, Candidate)}),
  E(V(2, 0, Candidate), FALSE, {V(3, 0, Candidate)}),
  E(V(3, 0, Candidate), FALSE, {})}

Nightlies == {
  E(V(2, 0, 1), FALSE, {V(2, 0, 2), V(2, 0, Candidate), V(2, 1, 1), V(2, 1, Release)}),
  E(V(2, 0, 2), FALSE, {V(2, 1, 1), V(3, 0, 1)}),
  E(V(3, 0, 1), FALSE, {})}

WithoutDefault(c) == {[e EXCEPT !.default = FALSE] : e \in c}

MCCatalogues == {
  Stable \cup Candidates \cup Nightlies,
  Stable \cup Candidates,
  Stable \cup {[e EXCEPT !.default = e.v.minor = 2] : e \in Candidates},
  WithoutDefault(Stable) \cup Nightlies,
  {e \in Stable : e.v.minor = 1 /\ e.v.patch # 3}}

Request == [provider |-> "ocm", user |-> None, channel |-> "stable", asked |-> {},
            image |-> None, delta |-> 1, minor |-> 2, upgradeTo |-> {"latest"},
            preset |-> FALSE]

Ask == {{}, {"delta"}, {"latest"}, {"xy"}, {"y"}, {"yDelta"}, {"z"}, {"zDelta"},
        {"middle"}, {"oldest"}, {"next"}, {"xy", "middle"}, {"latest", "z"}}

MCRequests ==
  {[Request EXCEPT !.channel = c, !.asked = a, !.upgradeTo = u] :
     c \in {"stable", "candidate", "nightly"}, a \in Ask,
     u \in {{}, {"latest"}, {"y"}, {"z"}}}
  \cup {[Request EXCEPT !.asked = {a}, !.delta = -1] : a \in {"delta", "yDelta", "zDelta"}}
  \cup {[Request EXCEPT !.asked = a, !.image = V(2, 0, 2), !.upgradeTo = u] :
          a \in {{"specificImage"}, {"triggeredNightly", "latest"}}, u \in {{"latest"}, {"y"}}}
  \cup {[Request EXCEPT !.asked = {"specificNightly"}]}
  \cup {[Request EXCEPT !.asked = {"delta"}, !.delta = -4, !.channel = "nightly",
                        !.upgradeTo = {"z"}]}
  \cup {[Request EXCEPT !.user = v, !.channel = c, !.upgradeTo = u] :
          v \in {V(2, 0, Release), V(1, 1, Release)}, c \in {"stable", "nightly"},
          u \in {{"latest"}, {"y"}, {"z"}}}
  \cup {[Request EXCEPT !.provider = "rosa", !.asked = a] :
          a \in {{}, {"delta"}, {"xy"}, {"y"}, {"zDelta"}, {"oldest"}}}
  \cup {[Request EXCEPT !.preset = TRUE]}
=============================================================================
