------------------------------ MODULE LoadChart ------------------------------
(***************************************************************************)
(* LoadChart of main.go: several loads, each in a goroutine or a process   *)
(* of its own, read a HelmRepository and its Secret or cloud provider, log *)
(* in to the registry through a temporary credentials file, resolve a      *)
(* version, pull the chart and clean up in their deferred calls.  The      *)
(* cluster and the registries change under them, calls fail, and a process *)
(* may be killed at any step.                                              *)
(*                                                                         *)
(* What the loads share is the cluster, the registries and the machine:    *)
(* its own registry logins (files, and a native credential helper when one *)
(* is installed).                                                          *)
(***************************************************************************)
EXTENDS RegistryAuth, Naturals, FiniteSets, Sequences

CONSTANTS
  Loads,          \* concurrent calls of LoadChart
  Repositories,   \* names of HelmRepository objects
  SecretNames,    \* names of Secret objects
  Requests,       \* ways to call them: [Loads -> ChartSourceRef], a ChartSourceRef
                  \* being [repo, version]
  RepoSpecs,      \* the HelmRepository specs the cluster may hold
  SecretSpecs,    \* the Secrets the cluster may hold
  ProviderAuths,  \* the credentials a cloud provider may hand out
  Hosts,          \* registry hosts
  Tags,           \* tags and digests a registry may hold
  TopCore,        \* the highest version core of Tags
  Clusters,       \* initial contents of the cluster: [repos, secrets]
  MachineLogins,  \* initial logins of the machine: [Hosts -> credential or Nil]
  Publications,   \* initial contents of the registries: [Hosts -> SUBSET Tags]
  NativeHelper,   \* a docker-credential-* helper is installed on the machine
  MaxEdits        \* bound: changes of the cluster and the registries

ASSUME WorldAssumption ==
  /\ MaxEdits \in Nat
  /\ \A r \in Requests : DOMAIN r = Loads
  /\ NativeHelper \in BOOLEAN
  /\ Publications \subseteq [Hosts -> SUBSET Tags]
  /\ \A m \in MachineLogins : DOMAIN m = Hosts
  /\ Clusters \subseteq [repos : [Repositories -> RepoSpecs \cup {Nil}],
                        secrets : [SecretNames -> SecretSpecs \cup {Nil}]]

\* The names that requests and specs refer to are among those that objects may have,
\* and what a URL, a Secret, a tag and a range are made of.
ASSUME InputAssumption ==
  /\ \A r \in Requests, p \in Loads :
       /\ r[p].repo \in Repositories
       /\ \/ r[p].version.range = Nil
          \/ r[p].version.range.lo \in Nat /\ r[p].version.range.hi \in Nat
  /\ \A r \in RepoSpecs :
       /\ {"url", "secretRef"} \subseteq DOMAIN r /\ r.secretRef \in SecretNames \cup {Nil}
       /\ r.url = Nil \/ ("host" \in DOMAIN r.url /\ r.url.host \in Hosts)
  /\ \A s \in SecretSpecs :
       /\ Credential(s.username, s.password) \in Credentials
       /\ s.config = Nil \/ \A h \in Hosts : s.config[h] \in Credentials \cup {Nil}
  /\ \A t \in Tags : t.core \in Nat /\ t.pre \in Nat
  /\ Nil \notin Tags \cup {AnonymousKeychain} \cup [registry : Hosts, cred : Credentials]

V == INSTANCE ChartVersions

VARIABLES
  cluster,    \* HelmRepository objects by name, Nil when there is none
  secrets,    \* Secret objects by name, Nil when there is none
  published,  \* the tags and digests each registry holds
  ref,        \* the ChartSourceRef each load was called with
  edits,      \* changes of the cluster and the registries so far (for the bound)
  machine,    \* the machine's own logins, in its registry and docker config files
  native,     \* the logins its native credential helper keeps, by host
  pc,         \* where a load is
  repo,       \* its copy of the HelmRepository, with the normalized URL
  secret,     \* its copy of the Secret
  login,      \* its login option
  file,       \* what its registry client's credentials file is
  disk,       \* its temporary credentials file: "absent", "empty" or "login"
  mem,        \* the entry for its host in its client's in-memory configuration
  cv,         \* the version it resolved
  defers,     \* its deferred calls, last registered first
  result,     \* the chart it loaded, Nil before and after an error
  shown,      \* the credentials it presented when listing and pulling
  highs,      \* every answer that was right at some time before its listing
  stuck       \* the loads whose file os.Remove could not delete

env == <<cluster, secrets, published, ref, edits>>
stores == <<machine, native, disk, mem>>
vars == <<cluster, secrets, published, ref, edits, machine, native, pc, repo, secret,
          login, file, disk, mem, cv, defers, result, shown, highs, stuck>>

Req(p) == ref[p].version
Host(p) == repo[p].url.host

-----------------------------------------------------------------------------
(* The machine's credential stores, as helm's registry client uses them.   *)

\* A client whose own file holds no login uses the native helper, when there
\* is one, in place of the file; the machine's logins are the fallback.
OwnLogin(p, h) ==
  IF NativeHelper THEN native[h] ELSE IF file[p] = "temp" THEN mem[p] ELSE Nil

Presented(p) ==
  IF OwnLogin(p, Host(p)) \in {Nil, Nobody} THEN machine[Host(p)]
  ELSE OwnLogin(p, Host(p))

\* A file that is saved is created again if it was deleted.
SaveFile(p, entry) ==
  IF file[p] = "temp" THEN disk' = [disk EXCEPT ![p] = entry] /\ UNCHANGED machine
  ELSE /\ machine' = [machine EXCEPT ![Host(p)] = IF entry = "empty" THEN Nil ELSE mem'[p]]
       /\ UNCHANGED disk

\* Store the login: in the helper, leaving a blank entry in the file, or in the
\* file.  Saving the file can fail after the entry is in memory or in the helper.
StoreLogin(p, saved) ==
  /\ mem' = [mem EXCEPT ![p] = IF NativeHelper THEN Nobody ELSE login[p]]
  /\ native' = IF NativeHelper THEN [native EXCEPT ![Host(p)] = login[p]] ELSE native
  /\ IF saved THEN SaveFile(p, "login") ELSE UNCHANGED <<machine, disk>>

\* Mutant: the helper forgets the logins of every host.
EraseEveryLogin(p, saved) ==
  /\ mem' = [mem EXCEPT ![p] = Nil]
  /\ native' = IF NativeHelper THEN [h \in Hosts |-> Nil] ELSE native
  /\ IF saved THEN SaveFile(p, "empty") ELSE UNCHANGED <<machine, disk>>

EraseLogin(p, saved) ==
  /\ mem' = [mem EXCEPT ![p] = Nil]
  /\ native' = IF NativeHelper THEN [native EXCEPT ![Host(p)] = Nil] ELSE native
  /\ IF saved THEN SaveFile(p, "empty") ELSE UNCHANGED <<machine, disk>>

\* The versions a registry should answer a range with, said without the code's
\* own comparisons (only LoadedIsRequested looks at them).
Wanted(held, req) ==
  LET fits == {t \in held : /\ req.range # Nil /\ t.form = "strict"
                            /\ req.range.lo <= t.core /\ t.core <= req.range.hi
                            /\ t.pre # 0 => req.range.pre}
  IN  {t \in fits : \A u \in fits :
         \/ u.core < t.core
         \/ u.core = t.core /\ (t.pre = 0 \/ u.pre \in 1 .. t.pre)}

-----------------------------------------------------------------------------
Init ==
  /\ \E c \in Clusters : cluster = c.repos /\ secrets = c.secrets
  /\ published \in Publications
  /\ ref \in Requests
  /\ edits = 0
  /\ machine \in MachineLogins
  /\ native \in IF NativeHelper THEN MachineLogins ELSE {[h \in Hosts |-> Nil]}
  /\ pc = [p \in Loads |-> "get_repo"]
  /\ repo = [p \in Loads |-> Nil]
  /\ secret = [p \in Loads |-> Nil]
  /\ login = [p \in Loads |-> Nil]
  /\ file = [p \in Loads |-> "none"]
  /\ disk = [p \in Loads |-> "absent"]
  /\ mem = [p \in Loads |-> Nil]
  /\ cv = [p \in Loads |-> Nil]
  /\ defers = [p \in Loads |-> <<>>]
  /\ result = [p \in Loads |-> Nil]
  /\ shown = [p \in Loads |-> {}]
  /\ highs = [p \in Loads |-> {}]
  /\ stuck = {}

\* Fail is return nil, err: the result stays Nil.
Goto(p, step) == pc' = [pc EXCEPT ![p] = step] /\ UNCHANGED result
Fail(p) == Goto(p, "return")

\* kc.Get, then the URL is normalized and validated.
GetHelmRepository(p) ==
  /\ pc[p] = "get_repo"
  /\ LET found == cluster[ref[p].repo]
         read == [found EXCEPT !.url = NormalizeURL(found.url)]
     IN  \/ Fail(p) /\ UNCHANGED <<repo, highs>>
         \/ /\ found # Nil
            /\ repo' = [repo EXCEPT ![p] = read]
            /\ highs' = [highs EXCEPT ![p] =
                 IF read.url = Nil THEN {} ELSE Wanted(published[read.url.host], Req(p))]
            /\ IF ValidDepURL(read.url) THEN Goto(p, "get_auth") ELSE Fail(p)
  /\ UNCHANGED <<env, stores, secret, login, file, cv, defers, shown, stuck>>

\* The login option, or an error, that a load goes on with.
TakeLogin(p, option) ==
  IF option.err THEN Fail(p) /\ UNCHANGED login
  ELSE login' = [login EXCEPT ![p] = option.val] /\ Goto(p, "open")

UseSecret(p) ==
  /\ pc[p] = "get_auth" /\ repo[p].secretRef # Nil
  /\ LET found == secrets[repo[p].secretRef]
     IN  \/ Fail(p) /\ UNCHANGED <<secret, login>>
         \/ /\ found # Nil
            /\ secret' = [secret EXCEPT ![p] = found]
            /\ TakeLogin(p, LoginFromSecret(repo[p].url, found))
  /\ UNCHANGED <<env, stores, repo, file, cv, defers, shown, highs, stuck>>

\* A provider that is not configured is no error: the load goes on without one.
UseProvider(p) ==
  /\ pc[p] = "get_auth" /\ repo[p].secretRef = Nil
  /\ repo[p].provider # "generic" /\ repo[p].type = "oci"
  /\ \/ Fail(p) /\ UNCHANGED login
     \/ \E auth \in ProviderAuths \cup {Nil} :
          TakeLogin(p, MakeLoginOption(auth, Nil, repo[p].url))
  /\ UNCHANGED <<env, stores, repo, secret, file, cv, defers, shown, highs, stuck>>

UseNoLogin(p) ==
  /\ pc[p] = "get_auth" /\ repo[p].secretRef = Nil
  /\ repo[p].provider = "generic" \/ repo[p].type # "oci"
  /\ TakeLogin(p, MakeLoginOption(Nil, Nil, repo[p].url))
  /\ UNCHANGED <<env, stores, repo, secret, file, cv, defers, shown, highs, stuck>>

\* Mutant: helm's default credentials file although there is a login option.
OpenDefaultFile(p) ==
  /\ pc[p] = "open"
  /\ \/ Fail(p) /\ UNCHANGED file
     \/ /\ repo[p].type = "oci" /\ IsOCI(repo[p].url)
        /\ Goto(p, "client")
        /\ file' = [file EXCEPT ![p] = "shared"]
  /\ UNCHANGED <<env, stores, repo, secret, login, cv, defers, shown, highs, stuck>>

\* ClientGenerator, first half: a temporary file when there is a login option.
OpenCredentialsFile(p) ==
  /\ pc[p] = "open"
  /\ \/ Fail(p) /\ UNCHANGED <<file, disk>>
     \/ /\ repo[p].type = "oci" /\ IsOCI(repo[p].url)
        /\ Goto(p, "client")
        /\ file' = [file EXCEPT ![p] = IF login[p] # Nil THEN "temp" ELSE "shared"]
        /\ disk' = IF login[p] # Nil THEN [disk EXCEPT ![p] = "empty"] ELSE disk
  /\ UNCHANGED <<env, machine, native, mem, repo, secret, login, cv, defers,
                 shown, highs, stuck>>

RemoveFile(p) ==
  \/ disk' = [disk EXCEPT ![p] = "absent"] /\ UNCHANGED stuck
  \/ disk[p] # "absent" /\ stuck' = stuck \cup {p} /\ UNCHANGED disk

\* ClientGenerator, second half, and NewOCIChartRepository.  A client that
\* cannot be made takes its file along; a repository that cannot be made leaves
\* it to the deferred call.
NewRegistryClient(p) ==
  /\ pc[p] = "client"
  /\ \/ /\ Fail(p)
        /\ IF file[p] = "temp" THEN RemoveFile(p) ELSE UNCHANGED <<disk, stuck>>
        /\ UNCHANGED defers
     \/ /\ IF repo[p].url.parses THEN Goto(p, "login") ELSE Fail(p)
        /\ defers' = IF file[p] = "temp" THEN [defers EXCEPT ![p] = <<"remove">>] ELSE defers
        /\ UNCHANGED <<disk, stuck>>
  /\ UNCHANGED <<env, machine, native, mem, repo, secret, login, file, cv,
                 shown, highs>>

\* Mutant: Logout is deferred before the deletion of the file, so it runs after.
LoginDefersLogoutFirst(p) ==
  /\ pc[p] = "login" /\ login[p] # Nil
  /\ \/ Fail(p) /\ UNCHANGED <<stores, defers>>
     \/ /\ Goto(p, "version")
        /\ StoreLogin(p, TRUE)
        /\ defers' = [defers EXCEPT ![p] = @ \o <<"logout">>]
  /\ UNCHANGED <<env, repo, secret, login, file, cv, shown, highs, stuck>>

\* The registry refuses the login, or it is stored; Logout is deferred only
\* when all of it worked.
Login(p) ==
  /\ pc[p] = "login" /\ login[p] # Nil
  /\ \/ Fail(p) /\ UNCHANGED <<stores, defers>>
     \/ Fail(p) /\ StoreLogin(p, FALSE) /\ UNCHANGED defers
     \/ /\ Goto(p, "version")
        /\ StoreLogin(p, TRUE)
        /\ defers' = [defers EXCEPT ![p] = <<"logout">> \o @]
  /\ UNCHANGED <<env, repo, secret, login, file, cv, shown, highs, stuck>>

SkipLogin(p) ==
  /\ pc[p] = "login" /\ login[p] = Nil
  /\ Goto(p, "version")
  /\ UNCHANGED <<env, stores, repo, secret, login, file, cv, defers, shown, highs, stuck>>

\* GetChartVersion: a digest or a concrete version needs no listing.
UseGivenVersion(p) ==
  /\ pc[p] = "version"
  /\ V!UsesDigest(Req(p)) \/ V!UsesSemver(Req(p))
  /\ cv' = [cv EXCEPT ![p] = IF V!UsesDigest(Req(p)) THEN Req(p).digest ELSE Req(p).tag]
  /\ Goto(p, "pull")
  /\ UNCHANGED <<env, stores, repo, secret, login, file, defers, shown, highs, stuck>>

\* The registry answers the listing with its tags or with an error.
ListTags(p) ==
  /\ pc[p] = "version"
  /\ ~V!UsesDigest(Req(p)) /\ ~V!UsesSemver(Req(p))
  /\ shown' = [shown EXCEPT ![p] = @ \cup {Presented(p)}]
  /\ LET found == V!LastMatchingVersionOrConstraint(
                    V!ListedTags(published[Host(p)]), Req(p))
     IN  \/ Fail(p) /\ UNCHANGED cv
         \/ \E tag \in found : cv' = [cv EXCEPT ![p] = tag] /\ Goto(p, "pull")
  /\ UNCHANGED <<env, stores, repo, secret, login, file, defers, highs, stuck>>

\* The registry answers the pull with the chart or with an error, or the archive
\* cannot be loaded.
DownloadChart(p) ==
  /\ pc[p] = "pull"
  /\ shown' = [shown EXCEPT ![p] = @ \cup {Presented(p)}]
  /\ \/ Fail(p)
     \/ /\ cv[p] \in published[Host(p)]
        /\ result' = [result EXCEPT ![p] = cv[p]]
        /\ pc' = [pc EXCEPT ![p] = "return"]
  /\ UNCHANGED <<env, stores, repo, secret, login, file, cv, defers, highs, stuck>>

\* Mutant: deferred calls run in the order they were registered.
FirstDeferred(p, call) ==
  /\ pc[p] = "return" /\ defers[p] # <<>> /\ defers[p][Len(defers[p])] = call
  /\ defers' = [defers EXCEPT ![p] = SubSeq(@, 1, Len(@) - 1)]

NextDeferred(p, call) ==
  /\ pc[p] = "return" /\ defers[p] # <<>> /\ Head(defers[p]) = call
  /\ defers' = [defers EXCEPT ![p] = Tail(@)]

\* The error of a deferred Logout is dropped: the host may not be logged in any
\* more, the helper may refuse, or the file cannot be saved.
Logout(p) ==
  /\ NextDeferred(p, "logout")
  /\ \/ UNCHANGED stores
     \/ mem[p] # Nil /\ \E saved \in BOOLEAN : EraseLogin(p, saved)
  /\ UNCHANGED <<env, pc, repo, secret, login, file, cv, result, shown, highs, stuck>>

\* The error of a deferred os.Remove is only logged.
RemoveCredentialsFile(p) ==
  /\ NextDeferred(p, "remove")
  /\ RemoveFile(p)
  /\ UNCHANGED <<env, machine, native, mem, pc, repo, secret, login, file, cv,
                 result, shown, highs>>

\* Mutant: a load waits until its credentials file is gone.
ReturnWithoutFile(p) ==
  /\ pc[p] = "return" /\ defers[p] = <<>> /\ disk[p] = "absent"
  /\ Goto(p, "done")
  /\ UNCHANGED <<env, stores, repo, secret, login, file, cv, defers, shown, highs, stuck>>

Return(p) ==
  /\ pc[p] = "return" /\ defers[p] = <<>>
  /\ Goto(p, "done")
  /\ UNCHANGED <<env, stores, repo, secret, login, file, cv, defers, shown, highs, stuck>>

\* The process is killed: no deferred call runs, only its memory goes away.
Crash(p) ==
  /\ pc[p] \notin {"done", "crashed"}
  /\ pc' = [pc EXCEPT ![p] = "crashed"]
  /\ defers' = [defers EXCEPT ![p] = <<>>]
  /\ mem' = [mem EXCEPT ![p] = Nil]
  /\ UNCHANGED <<env, machine, native, disk, repo, secret, login, file, cv,
                 result, shown, highs, stuck>>

-----------------------------------------------------------------------------
(* The world around the loads: users of the cluster and of the registries. *)

Edit ==
  /\ edits < MaxEdits
  /\ edits' = edits + 1
  /\ UNCHANGED <<stores, ref, pc, repo, secret, login, file, cv, defers, result,
                 shown, stuck>>

EditRepository ==
  /\ Edit
  /\ \E n \in Repositories, spec \in RepoSpecs \cup {Nil} :
       cluster' = [cluster EXCEPT ![n] = spec]
  /\ UNCHANGED <<secrets, published, highs>>

EditSecret ==
  /\ Edit
  /\ \E n \in SecretNames, spec \in SecretSpecs \cup {Nil} :
       secrets' = [secrets EXCEPT ![n] = spec]
  /\ UNCHANGED <<cluster, published, highs>>

\* The load has yet to resolve its version in the registry of this host.
Reading(p, h) ==
  pc[p] \in {"get_auth", "open", "client", "login", "version"} /\ Host(p) = h

\* A tag or a digest is pushed to a registry or deleted from it.
EditRegistry ==
  /\ Edit
  /\ \E h \in Hosts, t \in Tags :
       LET now == IF t \in published[h] THEN published[h] \ {t} ELSE published[h] \cup {t}
       IN  /\ published' = [published EXCEPT ![h] = now]
           /\ highs' = [p \in Loads |->
                IF Reading(p, h)
                THEN highs[p] \cup Wanted(now, Req(p))
                ELSE highs[p]]
  /\ UNCHANGED <<cluster, secrets>>

-----------------------------------------------------------------------------
\* Steps that wait for nothing, for the API server, which is taken to answer, or
\* for a provider or a login, whose requests time out; and the answers of a
\* registry to a listing or a pull, which no timeout bounds.
LocalStep(p) ==
  \/ GetHelmRepository(p) \/ UseSecret(p) \/ UseProvider(p) \/ UseNoLogin(p)
  \/ OpenCredentialsFile(p) \/ NewRegistryClient(p) \/ Login(p) \/ SkipLogin(p)
  \/ UseGivenVersion(p)
  \/ Logout(p) \/ RemoveCredentialsFile(p) \/ Return(p)

RegistryAnswer(p) == ListTags(p) \/ DownloadChart(p)

Ended(p) == pc[p] \in {"done", "crashed"}

Next ==
  \/ \E p \in Loads : LocalStep(p) \/ RegistryAnswer(p) \/ Crash(p)
  \/ EditRepository \/ EditSecret \/ EditRegistry

Spec == Init /\ [][Next]_vars

\* The scheduler runs every load; a registry need not answer.
SilentSpec == Spec /\ \A p \in Loads : WF_vars(LocalStep(p))

AwaitsRegistry(p) ==
  \/ pc[p] = "pull"
  \/ pc[p] = "version" /\ ~V!UsesDigest(Req(p)) /\ ~V!UsesSemver(Req(p))

-----------------------------------------------------------------------------
Steps == {"get_repo", "get_auth", "open", "client", "login", "version", "pull",
          "return", "done", "crashed"}

\* Every variable holds a value of its kind.
TypeOK ==
  /\ edits \in 0 .. MaxEdits
  /\ published \in [Hosts -> SUBSET Tags]
  /\ pc \in [Loads -> Steps]
  /\ file \in [Loads -> {"none", "shared", "temp"}]
  /\ disk \in [Loads -> {"absent", "empty", "login"}]
  /\ defers \in [Loads -> {<<>>, <<"remove">>, <<"logout", "remove">>}]
  /\ stuck \subseteq Loads
  /\ DOMAIN login = Loads /\ DOMAIN mem = Loads /\ DOMAIN repo = Loads
  /\ DOMAIN shown = Loads
  /\ DOMAIN native = Hosts /\ DOMAIN machine = Hosts

\* "The file is meant to be used for a single reconciliation and deleted after":
\* whatever fails on the way, and although Logout writes the file once more, a
\* load that has returned left no credentials file, unless os.Remove failed.
NothingLeftBehind ==
  \A p \in Loads : pc[p] = "done" /\ p \notin stuck => disk[p] = "absent"

\* The temporary file is there so that the login does not end up in the
\* machine's own stores: no load ever changes them.
MachineLoginsKept == [][UNCHANGED <<machine, native>>]_vars

\* "The OCIGetter will later retrieve the stored credentials to pull the chart":
\* a load that logged in presents that login, and no other, to the registry.
PullUsesOwnLogin ==
  \A p \in Loads : login[p] # Nil => shown[p] \subseteq {login[p]}

\* A load never falls back to no login when its Secret is of docker type and has
\* no entry for the host, or has half an entry, and it never logs in with an
\* entry that is not the host's.
SecretDecidesLogin ==
  \A p \in Loads :
    pc[p] \notin {"get_repo", "get_auth", "return", "done", "crashed"} /\ secret[p] # Nil =>
      LET held == IF secret[p].type # "docker"
                  THEN Credential(secret[p].username, secret[p].password)
                  ELSE secret[p].config[Host(p)]
      IN  /\ secret[p].type = "docker" => secret[p].config # Nil /\ held # Nil
          /\ login[p] = IF held = Nobody THEN Nil ELSE held

\* A load that succeeded returns the digest or the version it was asked for, or
\* a version that was the highest match of its range at some time between the start
\* of the load and its listing, whatever is pushed or deleted meanwhile.
LoadedIsRequested ==
  \A p \in Loads :
    result[p] # Nil =>
      IF V!UsesDigest(Req(p)) THEN result[p] = Req(p).digest
      ELSE IF V!UsesSemver(Req(p)) THEN result[p] = Req(p).tag
      ELSE result[p] \in highs[p]

\* Only a registry can hold a load up for ever: however the deferred calls of this load
\* and the failures and kills of others fall, a load that is not waiting for a listing
\* or a pull returns to its caller, unless it is killed.
OnlyRegistryHolds == \A p \in Loads : <>[](Ended(p) \/ AwaitsRegistry(p))

\* "Timeout is used [...] for remote OCI Repository operations like pulling for an OCI
\* helm repository. Its default value is 60s": every load returns or is killed, whether
\* the registry answers or not.
EveryLoadReturns == \A p \in Loads : <>Ended(p)
=============================================================================
