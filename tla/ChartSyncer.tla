---------------------------- MODULE ChartSyncer ----------------------------
(***************************************************************************)
(* The chart syncer: runs of src/chart-syncer, which copy every version of *)
(* a chart from a chart repository to an OCI registry with the helm        *)
(* command.  Runs share helm's repositories and cached indexes, the files  *)
(* in /tmp and the registries, and may be killed and started again.        *)
(*                                                                         *)
(* A chart is [url, name, version], url being the repository that          *)
(* published it; arguments are [alias, url, name, registry].  helm and     *)
(* the registry are external.                                              *)
(***************************************************************************)
EXTENDS Naturals, Sequences

CONSTANTS
  Syncers,
  Urls, Names, Versions, Registries,
  PlusVersions,  \* those with build metadata, which no tag may contain
  Args,          \* the arguments of runs
  Catalogue,     \* the charts that were published before the first run
  Leftovers,     \* those that may lie in /tmp
  Stock,         \* those that may be in a registry, under their own name
  Nil,
  Upcoming,      \* bound: the charts that may be published while the runs go on
  MaxRuns        \* bound: runs

ASSUME SyncerAssumption ==
  /\ PlusVersions \subseteq Versions /\ MaxRuns \in Nat
  /\ Nil \notin Urls /\ Nil \notin Args
  /\ Nil \notin [url : Urls, name : Names, version : Versions]
  /\ \A a \in Args : a.url \in Urls /\ a.name \in Names /\ a.registry \in Registries
  /\ Catalogue \cup Upcoming \subseteq [url : Urls, name : Names, version : Versions]
  /\ Leftovers \subseteq Catalogue /\ Stock \subseteq Catalogue

Aliases == {a.alias : a \in Args}
Charts == [url : Urls, name : Names, version : Versions]
Results == [name : Names, version : Versions]

VARIABLES
  source,     \* the charts that were published
  repos,      \* helm's repositories: the URL of an alias
  index,      \* the charts in the cached index of an alias
  tmp,        \* the chart in /tmp/<name>-<version>.tgz
  images,     \* what the registries hold
  pc, arg,    \* a syncer's place and its arguments
  listing,    \* the results of its search
  todo,       \* those still to do
  current,    \* the one at hand
  synced,     \* those it found in the registry or pushed
  overwritten,\* the file it pulled was pulled again by another one
  runs

helm == <<repos, index>>
run == <<arg, listing>>
loop == <<todo, current, synced>>
vars == <<source, helm, tmp, images, pc, run, loop, overwritten, runs>>

Goto(s, place) == pc' = [pc EXCEPT ![s] = place]

\* Where the digest of a version is looked for, registry/name:version, and where
\* helm push puts a chart: it appends the chart's name to registry/name.
DigestPath(name) == <<name>>

PushPath(a, c) == <<a.name, c.name>>
Paths == {<<n>> : n \in Names} \cup {<<n, m>> : n, m \in Names}

Image(a, path, v, c) == [registry |-> a.registry, repo |-> path, tag |-> v, chart |-> c]
IsThere(a, path, v) == \E c \in Charts : Image(a, path, v, c) \in images

Init ==
  /\ source = Catalogue
  /\ repos \in [Aliases -> Urls \cup {Nil}]
  /\ index = [a \in Aliases |-> {c \in source : c.url = repos[a]}]
  /\ tmp \in [Results -> Leftovers \cup {Nil}]
  /\ \A r \in Results : tmp[r] # Nil => tmp[r].name = r.name /\ tmp[r].version = r.version
  /\ images \in SUBSET {Image(a, <<c.name>>, c.version, c) : a \in Args, c \in Stock}
  /\ pc = [s \in Syncers |-> "off"]
  /\ arg = [s \in Syncers |-> Nil]
  /\ listing = [s \in Syncers |-> {}]
  /\ todo = [s \in Syncers |-> {}]
  /\ current = [s \in Syncers |-> Nil]
  /\ synced = [s \in Syncers |-> {}]
  /\ overwritten = [s \in Syncers |-> FALSE]
  /\ runs = 0

Start(s) ==
  /\ pc[s] = "off" /\ runs < MaxRuns
  /\ runs' = runs + 1
  /\ \E a \in Args : arg' = [arg EXCEPT ![s] = a]
  /\ Goto(s, "add")
  /\ UNCHANGED <<source, helm, tmp, images, listing, loop, overwritten>>

\* helm repo add fetches the index of a new alias.  An alias that is there keeps
\* its URL and its index.  An error, of either kind, is only logged.
RepoAdd(s) ==
  /\ pc[s] = "add"
  /\ \/ /\ repos[arg[s].alias] = Nil
        /\ repos' = [repos EXCEPT ![arg[s].alias] = arg[s].url]
        /\ index' = [index EXCEPT ![arg[s].alias] = {c \in source : c.url = arg[s].url}]
     \/ UNCHANGED helm
  /\ Goto(s, "search")
  /\ UNCHANGED <<source, tmp, images, run, loop, overwritten, runs>>

\* helm search lists the charts of the cached index whose name contains the one
\* asked for; without output that is JSON the run panics.
Search(s) ==
  /\ pc[s] = "search"
  /\ \/ Goto(s, "panic") /\ UNCHANGED <<listing, todo>>
     \/ /\ listing' = [listing EXCEPT ![s] =
             {[name |-> c.name, version |-> c.version] : c \in index[arg[s].alias]}]
        /\ todo' = [todo EXCEPT ![s] = listing'[s]]
        /\ Goto(s, "next")
  /\ UNCHANGED <<source, helm, tmp, images, arg, current, synced, overwritten, runs>>

\* Mutant: the results of other charts are not passed over.
IsAnyChart(s, r) == TRUE

IsTheChart(s, r) == r.name = arg[s].name

\* The next result, or the end; a result of another chart is passed over.
NextResult(s) ==
  /\ pc[s] = "next"
  /\ \/ todo[s] = {} /\ Goto(s, "done") /\ UNCHANGED <<todo, current>>
     \/ \E r \in todo[s] :
          /\ todo' = [todo EXCEPT ![s] = @ \ {r}]
          /\ IF IsTheChart(s, r)
             THEN current' = [current EXCEPT ![s] = r] /\ Goto(s, "digest")
             ELSE UNCHANGED <<current, pc>>
  /\ UNCHANGED <<source, helm, tmp, images, run, synced, overwritten, runs>>

\* ImageDigest: any error counts as "not there", and a "+" is always an error.
CheckDigest(s) ==
  /\ pc[s] = "digest"
  /\ \/ /\ current[s].version \notin PlusVersions
        /\ IsThere(arg[s], DigestPath(arg[s].name), current[s].version)
        /\ synced' = [synced EXCEPT ![s] = @ \cup {current[s]}]
        /\ current' = [current EXCEPT ![s] = Nil]
        /\ Goto(s, "next")
     \/ Goto(s, "pull") /\ UNCHANGED <<synced, current>>
  /\ UNCHANGED <<source, helm, tmp, images, run, todo, overwritten, runs>>

\* The chart that helm pull alias/name --version fetches.
Asked(s) == [url |-> repos[arg[s].alias], name |-> arg[s].name, version |-> current[s].version]

\* Mutant: a file that is there already is not pulled again.
PulledIfMissing(s) == IF tmp[current[s]] = Nil THEN Asked(s) ELSE tmp[current[s]]

Pulled(s) == Asked(s)

\* helm pull replaces the file; a failure, or a version that the index does not have,
\* is a panic.
Pull(s) ==
  /\ pc[s] = "pull"
  /\ \/ /\ Asked(s) \in index[arg[s].alias]
        /\ tmp' = [tmp EXCEPT ![current[s]] = Pulled(s)]
        /\ overwritten' = [o \in Syncers |->
             IF o = s THEN FALSE ELSE overwritten[o] \/ current[o] = current[s]]
        /\ Goto(s, "push")
     \/ Goto(s, "panic") /\ UNCHANGED <<tmp, overwritten>>
  /\ UNCHANGED <<source, helm, images, run, loop, runs>>

\* Mutant: the image that is pushed takes the place of every other version.
ReplacesAnyVersion(i, j) == j.registry = i.registry /\ j.repo = i.repo

Replaces(i, j) == j.registry = i.registry /\ j.repo = i.repo /\ j.tag = i.tag

\* The registry with the file that is there now, at its place.
WithFile(s) ==
  LET c == tmp[current[s]]
      i == Image(arg[s], PushPath(arg[s], c), c.version, c)
  IN  {j \in images : ~Replaces(i, j)} \cup {i}

\* Mutant: a failed push is only logged.
PushFailsSilently(s) ==
  /\ Goto(s, "next") /\ current' = [current EXCEPT ![s] = Nil]
  /\ UNCHANGED <<images, synced>>

\* Mutant: after a failed push the version is pulled and pushed again.
PushFailsAndRetries(s) == Goto(s, "pull") /\ UNCHANGED <<images, synced, current>>

\* A push that fails may have reached the registry, its answer being lost.
PushFails(s) ==
  /\ Goto(s, "panic")
  /\ images' \in {images, WithFile(s)}
  /\ UNCHANGED <<synced, current>>

\* helm push sends the file; a failure is a panic.
Push(s) ==
  /\ pc[s] = "push"
  /\ \/ /\ images' = WithFile(s)
        /\ synced' = [synced EXCEPT ![s] = @ \cup {current[s]}]
        /\ current' = [current EXCEPT ![s] = Nil]
        /\ Goto(s, "next")
     \/ PushFails(s)
  /\ UNCHANGED <<source, helm, tmp, run, todo, overwritten, runs>>

Finish(s) ==
  /\ arg' = [arg EXCEPT ![s] = Nil]
  /\ listing' = [listing EXCEPT ![s] = {}]
  /\ todo' = [todo EXCEPT ![s] = {}]
  /\ current' = [current EXCEPT ![s] = Nil]
  /\ synced' = [synced EXCEPT ![s] = {}]
  /\ overwritten' = [overwritten EXCEPT ![s] = FALSE]
  /\ Goto(s, "off")
  /\ UNCHANGED <<source, helm, tmp, images, runs>>

Exit(s) == pc[s] \in {"done", "panic"} /\ Finish(s)

\* The run is killed; its files in /tmp stay.
Kill(s) == pc[s] # "off" /\ Finish(s)

\* Somebody publishes a chart; no cached index hears of it.
Publish ==
  /\ \E c \in Upcoming \ source : source' = source \cup {c}
  /\ UNCHANGED <<helm, tmp, images, pc, run, loop, overwritten, runs>>

Step(s) == \/ RepoAdd(s) \/ Search(s) \/ NextResult(s) \/ CheckDigest(s)
           \/ Pull(s) \/ Push(s) \/ Exit(s)

Next == Publish \/ \E s \in Syncers : Start(s) \/ Step(s) \/ Kill(s)

Spec == Init /\ [][Next]_vars

\* A helm command or a request that was started answers, well or badly.
FairSpec == Spec /\ \A s \in Syncers : WF_vars(Step(s))

-----------------------------------------------------------------------------
InRun == {"add", "search", "next", "digest", "pull", "push", "done", "panic"}

\* Every variable has its type: a run has arguments, a result at hand is one of the
\* chart that was asked for, and a file is there when it is pushed.
TypeOK ==
  /\ source \subseteq Charts
  /\ repos \in [Aliases -> Urls \cup {Nil}]
  /\ index \in [Aliases -> SUBSET source]
  /\ \A a \in Aliases : \A c \in index[a] : c.url = repos[a]
  /\ tmp \in [Results -> source \cup {Nil}]
  /\ \A r \in Results : tmp[r] # Nil => tmp[r].name = r.name /\ tmp[r].version = r.version
  /\ images \subseteq
       [registry : Registries, repo : Paths, tag : Versions, chart : source]
  /\ pc \in [Syncers -> InRun \cup {"off"}]
  /\ arg \in [Syncers -> Args \cup {Nil}]
  /\ {listing, todo, synced} \subseteq [Syncers -> SUBSET Results]
  /\ current \in [Syncers -> Results \cup {Nil}]
  /\ overwritten \in [Syncers -> BOOLEAN] /\ runs \in 0..MaxRuns
  /\ \A s \in Syncers :
       /\ pc[s] = "off" <=> arg[s] = Nil
       /\ pc[s] \in {"off", "add", "search"} => listing[s] = {}
       /\ todo[s] \subseteq listing[s] /\ synced[s] \subseteq listing[s]
       /\ pc[s] \in {"digest", "pull", "push"} =>
            /\ current[s] \in listing[s] /\ current[s].name = arg[s].name
            /\ current[s] \notin todo[s]
       /\ pc[s] \in {"off", "add", "search", "next", "done"} => current[s] = Nil
       /\ pc[s] = "push" => tmp[current[s]] # Nil

\* A run that comes to its end has, of every version of the chart in the listing it
\* read, an image in its registry, where ImageDigest looks or where helm push puts
\* it: no failure on the way is passed over.
DoneMeansSynced ==
  \A s \in Syncers : pc[s] = "done" =>
    \A r \in listing[s] : r.name = arg[s].name =>
      \E path \in {DigestPath(r.name), <<r.name, r.name>>} : IsThere(arg[s], path, r.version)

\* What a run pushes is the chart of the alias it was asked for, not a file that an
\* earlier run, or one of another repository, left under the same name; a run that
\* pulls at the same time is the exception.
PushesWhatItPulled ==
  \A s \in Syncers : pc[s] = "push" /\ ~overwritten[s] =>
    tmp[current[s]].url = repos[arg[s].alias]

\* The registries mirror the sources: they only gain charts that were published.
Mirror == INSTANCE ChartMirror
MirrorsSource == Mirror!MirrorSpec

\* A run that was started comes to its end, by itself or killed.
EveryRunEnds == \A s \in Syncers : pc[s] # "off" ~> pc[s] = "off"

\* What the comments by the pull and the push say: "helm push flux2-2.10.6.tgz
\* oci://ghcr.io/gh-walker", then "helm pull oci://ghcr.io/gh-walker/flux2": a
\* version the run has synced is at registry/name.
SyncedIsAtItsPlace ==
  \A s \in Syncers : \A r \in synced[s] : IsThere(arg[s], <<r.name>>, r.version)
=============================================================================
