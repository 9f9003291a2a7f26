----------------------------- MODULE MCLoadChart -----------------------------
(* Small worlds for LoadChart: constants of the runs in MCLoadChart*.cfg.  *)
EXTENDS LoadChart

CONSTANTS h1, h2, r1, r2, s1, s2

URL(scheme, host, parses, slash, ociInside) ==
  [scheme |-> scheme, host |-> host, parses |-> parses, slash |-> slash,
   ociInside |-> ociInside]
Oci(h) == URL("oci", h, TRUE, FALSE, FALSE)

Repo(url, type, provider, secretRef) ==
  [url |-> url, type |-> type, provider |-> provider, secretRef |-> secretRef]

Opaque(user, pass, tls) ==
  [type |-> "opaque", username |-> user, password |-> pass, tls |-> tls, config |-> Nil]
DockerConfig(config) ==
  [type |-> "docker", username |-> "", password |-> "", tls |-> "none", config |-> config]
Entries(c1, c2) == [h \in {h1, h2} |-> IF h = h1 THEN c1 ELSE c2]

Tag(core, pre, form) == [core |-> core, pre |-> pre, form |-> form]
Digest == Tag(0, 0, "digest")
Range(lo, hi, pre) == [lo |-> lo, hi |-> hi, pre |-> pre]
AsDigest == [tag |-> Nil, digest |-> Digest, range |-> Nil]
AsVersion(tag) == [tag |-> tag, digest |-> Nil, range |-> Nil]
AsRange(range) == [tag |-> Nil, digest |-> Nil, range |-> range]
Ref(repo_, version) == [repo |-> repo_, version |-> version]

Alice == Credential("alice", "a")
Bob == Credential("bob", "b")
Robot == Credential("robot", "r")
User == Credential("user", "u")
World(repos, secs) == [repos |-> repos, secrets |-> secs]

-----------------------------------------------------------------------------
(* One load and every kind of input: URLs, types, providers, Secrets and   *)
(* versions, on a machine with and without logins of its own.              *)

InputURLs == {Nil, Oci(h1), URL("oci", h1, FALSE, TRUE, FALSE),
              URL("ocix", h1, TRUE, FALSE, FALSE), URL("https", h1, TRUE, TRUE, TRUE),
              URL("alias", h1, TRUE, FALSE, FALSE)}
InputSecrets ==
  {Opaque("alice", "a", "none"), Opaque("alice", "", "none"), Opaque("", "", "ca"),
   Opaque("alice", "a", "half"), Opaque("<token>", "a", "pair"),
   DockerConfig(Nil), DockerConfig(Entries(Nil, Bob)), DockerConfig(Entries(Alice, Bob)),
   DockerConfig(Entries(Nobody, Nil)), DockerConfig(Entries(Credential("", "a"), Nil)),
   [DockerConfig(Entries(Alice, Bob)) EXCEPT !.username = "bob"]}
InputRepos == {Repo(u, t, pr, s) : u \in InputURLs, t \in {"oci", "default"},
                                   pr \in {"generic", "aws"}, s \in {Nil, s1}}
InputClusters ==
  {World([n \in {r1, r2} |-> IF n = r1 THEN r ELSE Nil],
         [n \in {s1, s2} |-> IF n = s1 THEN s ELSE Nil]) :
     r \in InputRepos \cup {Nil}, s \in InputSecrets \cup {Nil}}
InputAuths == {Robot, Credential("robot", ""), Nobody}
InputMachines == {[h \in {h1, h2} |-> Nil], [h \in {h1, h2} |-> User]}

SomeTags == {Tag(1, 0, "strict"), Tag(2, 0, "strict"), Tag(2, 1, "strict"),
             Tag(3, 1, "strict"), Tag(3, 0, "v"), Tag(3, 0, "other"), Digest}
InputVersions ==
  {AsDigest, AsVersion(Tag(2, 0, "strict")), AsVersion(Tag(3, 0, "v")),
   AsVersion(Tag(3, 0, "other")), AsRange(V!AnyStable), AsRange(Range(2, 3, TRUE)),
   AsRange(Range(3, 3, FALSE))}
OneRepo == {r1}
AllPublished == {[h \in {h1, h2} |-> SomeTags]}

-----------------------------------------------------------------------------
(* Two loads that share a repository and its registry while both change.   *)

SharedRepos == {Repo(Oci(h1), "oci", "generic", s1), Repo(Oci(h2), "oci", "generic", s1)}
SharedSecrets == {DockerConfig(Entries(Alice, Bob)), Opaque("bob", "b", "none")}
SharedClusters ==
  {World([n \in {r1} |-> Repo(Oci(h1), "oci", "generic", s1)], [n \in {s1} |-> s]) :
     s \in SharedSecrets}
SharedRequests == [Loads -> {Ref(r1, AsRange(V!AnyStable)), Ref(r1, AsDigest)}]
FewTags == {Tag(1, 0, "strict"), Tag(2, 0, "strict"), Tag(2, 1, "strict"), Digest}
FewPublished == {[h \in {h1, h2} |-> {Tag(1, 0, "strict"), Digest}]}

-----------------------------------------------------------------------------
(* Two loads of two HelmRepositories with different logins on two hosts;   *)
(* where the cluster has one HelmRepository only, the other load fails.    *)

OtherRepo == Repo(Oci(h2), "oci", "generic", s2)
OtherSecret == Opaque("bob", "b", "none")
TwoHosts ==
  World([n \in {r1, r2} |-> IF n = r1 THEN Repo(Oci(h1), "oci", "generic", s1) ELSE OtherRepo],
        [n \in {s1, s2} |-> IF n = s1 THEN Opaque("alice", "a", "none") ELSE OtherSecret])
AllRepos == InputRepos \cup {OtherRepo}
AllSecrets == InputSecrets \cup {OtherSecret}
ClustersAndTwoHosts == InputClusters \cup {TwoHosts}
FirstLoad == CHOOSE p \in Loads : TRUE
InputRequests ==
  {[p \in Loads |-> IF p = FirstLoad THEN Ref(r1, v) ELSE Ref(r2, AsDigest)] :
     v \in InputVersions}
=============================================================================
