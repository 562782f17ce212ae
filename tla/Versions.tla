---------------------------- MODULE Versions ----------------------------
(***************************************************************************)
(* The rules by which dcos-engine picks a DC/OS version and lists the      *)
(* versions a cluster may be upgraded to.                                  *)
(*                                                                         *)
(* A version is <<major, minor, patch, stage>>: the stage of a release is  *)
(* Final, a smaller one is a pre-release, which semver sorts before its    *)
(* release.  A release, in the sense of orchestratorRelease, is            *)
(* <<major, minor>>.  The empty string is None; a leading "v" is ignored   *)
(* by the code and left out here.  The lists of the code have no           *)
(* duplicates and their order does not matter: they are sets.  A build of  *)
(* the tool is a record of the versions it supports and of its default.    *)
(***************************************************************************)
EXTENDS Integers

Final == 9

None == <<>>

Version == Nat \X Nat \X Nat \X (0..Final)

Release(v) == <<v[1], v[2]>>

IsPreRelease(v) == v[4] # Final

\* semver's order
LT(v, w) ==
    \/ v[1] < w[1]
    \/ v[1] = w[1] /\ v[2] < w[2]
    \/ v[1] = w[1] /\ v[2] = w[2] /\ v[3] < w[3]
    \/ v[1] = w[1] /\ v[2] = w[2] /\ v[3] = w[3] /\ v[4] < w[4]

GetVersionsGt(versions, version, inclusive, preReleases) ==
    {v \in versions : /\ preReleases \/ ~IsPreRelease(v)
                      /\ LT(version, v) \/ (inclusive /\ v = version)}

GetVersionsLt(versions, version, inclusive, preReleases) ==
    {v \in versions : /\ preReleases \/ ~IsPreRelease(v)
                      /\ LT(v, version) \/ (inclusive /\ v = version)}

\* Pre-releases count once the lower bound is one.
GetVersionsBetween(versions, min, max, inclusive, preReleases) ==
    LET pre == preReleases \/ IsPreRelease(min)
    IN  GetVersionsGt(versions, min, inclusive, pre)
          \cap GetVersionsLt(versions, max, inclusive, pre)

GetLatestPatchVersion(release, versions) ==
    LET candidates == {v \in versions : Release(v) = release}
    IN  IF candidates = {} THEN None
        ELSE CHOOSE v \in candidates : \A w \in candidates : ~LT(v, w)

\* The version that release and version, each possibly None, stand for;
\* None when the build does not support it.
RationalizeReleaseAndVersion(build, release, version) ==
    CASE release = None /\ version = None -> build.default
      [] release # None /\ version = None ->
           GetLatestPatchVersion(release, build.supported)
      [] version # None ->
           IF /\ version \in build.supported
              /\ release \in {None, Release(version)}
           THEN version ELSE None

GetValidPatchVersion(build, version) ==
    LET rational == RationalizeReleaseAndVersion(build, None, version)
    IN  IF version # None /\ rational = None
        THEN RationalizeReleaseAndVersion(build, Release(version), None)
        ELSE rational

\* As the next, with the bounds included.
DcosUpgrades_Inclusive(build, v) ==
    GetVersionsBetween(build.supported, v, <<v[1], v[2] + 2, 0, Final>>, TRUE, FALSE)

\* The supported versions after v, up to the second next minor version and
\* without it.
DcosUpgrades(build, v) ==
    GetVersionsBetween(build.supported, v, <<v[1], v[2] + 2, 0, Final>>, FALSE, FALSE)
=============================================================================
