---------------------------- MODULE ChartVersions ----------------------------
(***************************************************************************)
(* Which version of a chart a ChartSourceRef asks for: the choices of      *)
(* OCIChartRepository.GetChartVersion and the matching of                  *)
(* getLastMatchingVersionOrConstraint.                                     *)
(*                                                                         *)
(* A tag is [core, pre, form]: core numbers its major.minor.patch, pre is  *)
(* 0 for a release and n for its n-th prerelease, and form says how it is  *)
(* written: "strict" (1.2.3), "v" (v1.2.3) or "other" (latest, 1.2).       *)
(*                                                                         *)
(* A request is [tag, digest, range]: the tag whose text it is equal to,   *)
(* if there is one, the digest it names, and the range it denotes when it  *)
(* is a semver constraint; each is Nil otherwise.  The empty version and   *)
(* "*" are the range AnyStable.  A range is [lo, hi, pre]: cores from lo   *)
(* to hi, pre when its bounds carry a prerelease part.                     *)
(***************************************************************************)
EXTENDS Naturals

CONSTANTS Nil, TopCore

AnyStable == [lo |-> 0, hi |-> TopCore, pre |-> FALSE]

Parses(tag) == tag.form \in {"strict", "v"}

\* Semver precedence: cores first, then a prerelease below its release.
Less(a, b) ==
  \/ a.core < b.core
  \/ a.core = b.core /\ a.pre # 0 /\ (b.pre = 0 \/ a.pre < b.pre)

\* Mutant: a prerelease is as good as a release.
CheckCoreOnly(range, tag) == tag.core \in range.lo .. range.hi

Check(range, tag) ==
  /\ tag.pre = 0 \/ range.pre
  /\ tag.core \in range.lo .. range.hi

\* A digest or a concrete version is used as it stands, without a listing.
UsesDigest(req) == req.digest # Nil
UsesSemver(req) == req.tag # Nil /\ Parses(req.tag)

\* The registry client lists strict versions only (and with "_" read as "+").
ListedTags(published) == {t \in published : t.form = "strict"}

Matching(tags, range) == {t \in tags : Parses(t) /\ Check(range, t)}

\* Mutant: sorted in ascending order.
Lowest(tags) == {t \in tags : \A u \in tags : ~Less(u, t)}

\* The first of the matches sorted in descending order: any of the highest,
\* the order of versions that differ in build metadata only being open.
Highest(tags) == {t \in tags : \A u \in tags : ~Less(t, u)}

\* The tags the function may return; none when it returns an error.
LastMatchingVersionOrConstraint(tags, req) ==
  IF req.tag \in tags THEN {req.tag}
  ELSE IF req.range = Nil THEN {}
  ELSE Highest(Matching(tags, req.range))
=============================================================================
