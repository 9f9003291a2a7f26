-------------------------- MODULE ChartSyncerProofs --------------------------
(***************************************************************************)
(* Theorems about ChartSyncer, for any number of runs at a time, any       *)
(* arguments and any charts.                                               *)
(***************************************************************************)
EXTENDS ChartSyncer, TLAPS

\* A version has an image in the registry of the run.
Covered(s, r) ==
  \E path \in {DigestPath(r.name), <<r.name, r.name>>} : IsThere(arg[s], path, r.version)

\* The loop's invariant: a version of the chart in the listing is still to do, at
\* hand, or in the registry.
LoopInv(s) ==
  /\ pc[s] = "done" => todo[s] = {}
  /\ \A r \in synced[s] : r.name = arg[s].name /\ Covered(s, r)
  /\ pc[s] \in {"next", "digest", "pull", "push", "done"} =>
       \A r \in listing[s] : r.name = arg[s].name =>
         \/ r \in todo[s] \cup synced[s]
         \/ pc[s] \in {"digest", "pull", "push"} /\ r = current[s]

Inv == TypeOK /\ PushesWhatItPulled /\ \A s \in Syncers : LoopInv(s)

-----------------------------------------------------------------------------
LEMMA InitTypeOK == Init => TypeOK
BY SyncerAssumption
   DEF Init, TypeOK, Charts, Results, Aliases, Image, InRun, Paths

\* The image that a run pushes: its chart's version at the place of its chart's name.
LEMMA PushedImage ==
  ASSUME TypeOK, NEW s \in Syncers, pc[s] = "push"
  PROVE  LET c == tmp[current[s]]
             i == Image(arg[s], PushPath(arg[s], c), c.version, c)
         IN /\ c \in source /\ c.name = arg[s].name /\ c.version = current[s].version
            /\ i \in [registry : Registries, repo : Paths, tag : Versions, chart : source]
            /\ i.repo = <<arg[s].name, arg[s].name>>
<1>. DEFINE c == tmp[current[s]]
<1>1. current[s] \in Results /\ current[s].name = arg[s].name /\ arg[s] \in Args
  BY DEF TypeOK
<1>2. c \in source /\ c.name = current[s].name /\ c.version = current[s].version
  BY <1>1 DEF TypeOK
<1>3. arg[s].registry \in Registries /\ arg[s].name \in Names /\ c.version \in Versions
  BY <1>1, <1>2, SyncerAssumption DEF Results
<1>. HIDE DEF c
<1>4. <<arg[s].name, arg[s].name>> \in Paths
  BY <1>3 DEF Paths
<1>5. PushPath(arg[s], c) = <<arg[s].name, arg[s].name>>
  BY <1>1, <1>2 DEF PushPath
<1>6. Image(arg[s], PushPath(arg[s], c), c.version, c)
        \in [registry : Registries, repo : Paths, tag : Versions, chart : source]
  BY <1>2, <1>3, <1>4, <1>5 DEF Image
<1>. QED  BY <1>1, <1>2, <1>5, <1>6 DEF c, Image

LEMMA TypeOKPreserved == TypeOK /\ [Next]_vars => TypeOK'
<1>. SUFFICES ASSUME TypeOK, [Next]_vars PROVE TypeOK'
  OBVIOUS
<1>. USE SyncerAssumption
<1>1. ASSUME NEW s \in Syncers, Start(s) PROVE TypeOK'
  BY <1>1 DEF TypeOK, Start, Goto, helm, loop, InRun
<1>2. ASSUME NEW s \in Syncers, RepoAdd(s) PROVE TypeOK'
  <2>1. arg[s] \in Args
    BY <1>2 DEF TypeOK, RepoAdd
  <2>. DEFINE I == {c \in source : c.url = arg[s].url}
  <2>0. /\ arg[s].alias \in Aliases /\ arg[s].url \in Urls /\ source' = source
        /\ \/ /\ repos' = [repos EXCEPT ![arg[s].alias] = arg[s].url]
              /\ index' = [index EXCEPT ![arg[s].alias] = I]
           \/ repos' = repos /\ index' = index
    BY <1>2, <2>1 DEF RepoAdd, helm, Aliases
  <2>a. I \subseteq source /\ \A c \in I : c.url = arg[s].url
    OBVIOUS
  <2>. HIDE DEF I
  <2>2. repos' \in [Aliases -> Urls \cup {Nil}]
    BY <2>0 DEF TypeOK
  <2>3. index' \in [Aliases -> SUBSET source']
    BY <2>0, <2>a DEF TypeOK
  <2>4. \A a \in Aliases : \A c \in index'[a] : c.url = repos'[a]
    BY <2>0, <2>a DEF TypeOK
  <2>5. pc' = [pc EXCEPT ![s] = "search"] /\ pc[s] = "add"
    BY <1>2 DEF RepoAdd, Goto
  <2>. QED  BY <1>2, <2>2, <2>3, <2>4, <2>5 DEF TypeOK, RepoAdd, run, loop, InRun
<1>3. ASSUME NEW s \in Syncers, Search(s) PROVE TypeOK'
  <2>1. arg[s] \in Args /\ arg[s].alias \in Aliases /\ pc[s] = "search" /\ synced[s] = {}
    BY <1>3 DEF TypeOK, Search, Aliases
  <2>2. CASE pc' = [pc EXCEPT ![s] = "panic"] /\ UNCHANGED <<listing, todo>>
    BY <1>3, <2>1, <2>2 DEF TypeOK, Search, helm, InRun
  <2>3. CASE pc' = [pc EXCEPT ![s] = "next"] /\ ~UNCHANGED <<listing, todo>>
    <3>. DEFINE R == {[name |-> c.name, version |-> c.version] : c \in index[arg[s].alias]}
    <3>1. R \subseteq Results
      BY <2>1 DEF TypeOK, Charts, Results
    <3>2. listing' = [listing EXCEPT ![s] = R] /\ todo' = [todo EXCEPT ![s] = R]
      BY <1>3, <2>1, <2>3 DEF TypeOK, Search
    <3>. HIDE DEF R
    <3>. QED  BY <1>3, <2>1, <2>3, <3>1, <3>2 DEF TypeOK, Search, helm, InRun
  <2>4. CASE pc' = [pc EXCEPT ![s] = "next"] /\ UNCHANGED <<listing, todo>>
    BY <1>3, <2>1, <2>4 DEF TypeOK, Search, helm, InRun
  <2>. QED  BY <1>3, <2>2, <2>3, <2>4 DEF Search, Goto
<1>4. ASSUME NEW s \in Syncers, NextResult(s) PROVE TypeOK'
  BY <1>4, SMTT(30) DEF TypeOK, NextResult, IsTheChart, Goto, helm, run, loop, InRun, Results
<1>5. ASSUME NEW s \in Syncers, CheckDigest(s) PROVE TypeOK'
  BY <1>5 DEF TypeOK, CheckDigest, Goto, helm, run, loop, InRun, Results
<1>6. ASSUME NEW s \in Syncers, Pull(s) PROVE TypeOK'
  <2>1. CASE pc' = [pc EXCEPT ![s] = "panic"] /\ UNCHANGED <<tmp, overwritten>>
    BY <1>6, <2>1 DEF TypeOK, Pull, helm, run, loop, InRun
  <2>2. CASE pc' = [pc EXCEPT ![s] = "push"] /\ tmp' = [tmp EXCEPT ![current[s]] = Asked(s)]
             /\ Asked(s) \in index[arg[s].alias]
    <3>1. arg[s] \in Args /\ arg[s].alias \in Aliases /\ current[s] \in Results /\ pc[s] = "pull"
      BY <1>6 DEF TypeOK, Pull, Aliases
    <3>2. Asked(s) \in source /\ Asked(s) # Nil
      BY <2>2, <3>1 DEF TypeOK, Charts
    <3>3. Asked(s).name = current[s].name /\ Asked(s).version = current[s].version
      BY <1>6 DEF TypeOK, Asked, Pull
    <3>4. tmp' \in [Results -> source \cup {Nil}] /\ \A r \in Results :
             tmp'[r] # Nil => tmp'[r].name = r.name /\ tmp'[r].version = r.version
      BY <2>2, <3>1, <3>2, <3>3 DEF TypeOK
    <3>5. overwritten' \in [Syncers -> BOOLEAN]
      <4>1. CASE UNCHANGED overwritten
        BY <4>1 DEF TypeOK
      <4>2. CASE overwritten' = [o \in Syncers |->
                   IF o = s THEN FALSE ELSE overwritten[o] \/ current[o] = current[s]]
        <5>1. \A o \in Syncers : (overwritten[o] \/ current[o] = current[s]) \in BOOLEAN
          OBVIOUS
        <5>. QED  BY <4>2, <5>1
      <4>. QED  BY <1>6, <4>1, <4>2 DEF Pull
    <3>6. \A o \in Syncers : pc'[o] = "push" => tmp'[current'[o]] # Nil
      BY <1>6, <2>2, <3>1, <3>2 DEF TypeOK, Pull, loop
    <3>7. UNCHANGED <<source, repos, index, images, runs, arg, listing, todo, current, synced>>
      BY <1>6 DEF Pull, helm, run, loop
    <3>8. pc' \in [Syncers -> InRun \cup {"off"}] /\ pc[s] = "pull" /\ pc'[s] = "push"
            /\ \A o \in Syncers \ {s} : pc'[o] = pc[o]
      BY <2>2, <3>1 DEF TypeOK, InRun
    <3>9. \A o \in Syncers :
            /\ pc'[o] = "off" <=> arg'[o] = Nil
            /\ pc'[o] \in {"off", "add", "search"} => listing'[o] = {}
            /\ todo'[o] \subseteq listing'[o] /\ synced'[o] \subseteq listing'[o]
            /\ pc'[o] \in {"digest", "pull", "push"} =>
                 /\ current'[o] \in listing'[o] /\ current'[o].name = arg'[o].name
                 /\ current'[o] \notin todo'[o]
            /\ pc'[o] \in {"off", "add", "search", "next", "done"} => current'[o] = Nil
      BY <3>7, <3>8 DEF TypeOK
    <3>. QED  BY <3>4, <3>5, <3>6, <3>7, <3>8, <3>9 DEF TypeOK
  <2>. QED  BY <1>6, <2>1, <2>2 DEF Pull, Pulled, Goto
<1>7. ASSUME NEW s \in Syncers, Push(s) PROVE TypeOK'
  <2>1. images' \subseteq [registry : Registries, repo : Paths, tag : Versions, chart : source]
    <3>1. pc[s] = "push" /\ images' \in {images, WithFile(s)}
      BY <1>7 DEF Push, PushFails
    <3>2. Image(arg[s], PushPath(arg[s], tmp[current[s]]), tmp[current[s]].version,
                tmp[current[s]])
            \in [registry : Registries, repo : Paths, tag : Versions, chart : source]
      BY <3>1, PushedImage
    <3>. QED  BY <3>1, <3>2 DEF TypeOK, WithFile
  <2>2. CASE pc' = [pc EXCEPT ![s] = "panic"] /\ UNCHANGED <<synced, current>>
    BY <1>7, <2>1, <2>2 DEF TypeOK, Push, helm, run, InRun
  <2>3. CASE /\ pc' = [pc EXCEPT ![s] = "next"]
             /\ synced' = [synced EXCEPT ![s] = @ \cup {current[s]}]
             /\ current' = [current EXCEPT ![s] = Nil]
    BY <1>7, <2>1, <2>3 DEF TypeOK, Push, helm, run, InRun
  <2>. QED  BY <1>7, <2>2, <2>3 DEF Push, PushFails, Goto
<1>8. ASSUME NEW s \in Syncers, Finish(s) PROVE TypeOK'
  BY <1>8 DEF TypeOK, Finish, Goto, helm, run, loop, InRun
<1>9. ASSUME Publish PROVE TypeOK'
  BY <1>9 DEF TypeOK, Publish, helm, run, loop, InRun, Charts
<1>10. CASE UNCHANGED vars
  BY <1>10 DEF TypeOK, vars, helm, run, loop, InRun
<1>. QED
  BY <1>1, <1>2, <1>3, <1>4, <1>5, <1>6, <1>7, <1>8, <1>9, <1>10 DEF Next, Step, Exit, Kill

\* Every variable has its type; a result at hand is one of the chart asked for, and
\* the file a run pushes is there.
THEOREM TypeCorrect == Spec => []TypeOK
BY InitTypeOK, TypeOKPreserved, PTL DEF Spec

-----------------------------------------------------------------------------
\* What is pushed takes the place of the same chart, registry and version only.
LEMMA IsThereKept ==
  ASSUME TypeOK, [Next]_vars, NEW a, NEW path, NEW v, IsThere(a, path, v)
  PROVE  IsThere(a, path, v)'
<1>1. PICK c \in Charts : Image(a, path, v, c) \in images
  BY DEF IsThere
<1>2. CASE UNCHANGED images
  BY <1>1, <1>2 DEF IsThere
<1>3. ASSUME NEW s \in Syncers, Push(s), ~UNCHANGED images PROVE IsThere(a, path, v)'
  <2>. DEFINE d == tmp[current[s]]
              p == PushPath(arg[s], d)
              new == Image(arg[s], p, d.version, d)
  <2>1. images' = {i \in images : ~Replaces(new, i)} \cup {new} /\ pc[s] = "push"
    BY <1>3 DEF Push, PushFails, WithFile
  <2>2. d \in Charts
    BY <2>1, PushedImage DEF TypeOK
  <2>. HIDE DEF d, p
  <2>3. CASE ~Replaces(new, Image(a, path, v, c))
    BY <1>1, <2>1, <2>3 DEF IsThere
  <2>4. CASE Replaces(new, Image(a, path, v, c))
    <3>1. Image(a, path, v, d) = new
      BY <2>4 DEF Image, Replaces
    <3>. QED  BY <2>1, <2>2, <3>1 DEF IsThere
  <2>. QED  BY <2>3, <2>4
<1>4. CASE UNCHANGED vars
  BY <1>2, <1>4 DEF vars
<1>. QED
  BY <1>2, <1>3, <1>4 DEF Next, Step, Start, RepoAdd, Search, NextResult, IsTheChart,
                          CheckDigest, Pull,
                          Exit, Kill, Finish, Publish

\* A step of another run leaves a run its loop.
LEMMA OthersLoop ==
  ASSUME TypeOK, [Next]_vars, NEW o \in Syncers, LoopInv(o),
         pc'[o] = pc[o], UNCHANGED <<arg[o], listing[o], todo[o], current[o], synced[o]>>
  PROVE  LoopInv(o)'
<1>1. ASSUME NEW r \in synced[o] PROVE Covered(o, r)'
  <2>1. PICK path \in {DigestPath(r.name), <<r.name, r.name>>} : IsThere(arg[o], path, r.version)
    BY <1>1 DEF LoopInv, Covered
  <2>2. IsThere(arg[o], path, r.version)'
    <3>1. ASSUME NEW a, a = arg[o] PROVE IsThere(a, path, r.version)'
      BY <2>1, <3>1, IsThereKept
    <3>2. \E c \in Charts : Image(arg[o], path, r.version, c) \in images'
      BY <3>1 DEF IsThere
    <3>. QED  BY <3>2 DEF IsThere
  <2>. QED  BY <2>1, <2>2 DEF Covered, DigestPath
<1>. QED  BY <1>1 DEF LoopInv

LEMMA LoopPreserved ==
  TypeOK /\ (\A s \in Syncers : LoopInv(s)) /\ [Next]_vars => (\A s \in Syncers : LoopInv(s))'
<1>. SUFFICES ASSUME TypeOK, \A s \in Syncers : LoopInv(s), [Next]_vars, NEW o \in Syncers
              PROVE  LoopInv(o)'
  OBVIOUS
<1>. LoopInv(o)
  OBVIOUS
<1>1. ASSUME pc'[o] = pc[o], UNCHANGED <<arg[o], listing[o], todo[o], current[o], synced[o]>>
      PROVE  LoopInv(o)'
  BY <1>1, OthersLoop
<1>2. ASSUME synced'[o] = {}, pc'[o] \in {"off", "add", "search", "panic"} PROVE LoopInv(o)'
  BY <1>2 DEF LoopInv
\* What was covered stays covered while the arguments stay.
<1>3. ASSUME UNCHANGED arg, NEW r, Covered(o, r) PROVE Covered(o, r)'
  <2>1. PICK path \in {DigestPath(r.name), <<r.name, r.name>>} : IsThere(arg[o], path, r.version)
    BY <1>3 DEF Covered
  <2>2. IsThere(arg[o], path, r.version)'
    <3>1. ASSUME NEW a, a = arg[o] PROVE IsThere(a, path, r.version)'
      BY <2>1, <3>1, IsThereKept
    <3>. QED  BY <1>3, <3>1 DEF IsThere
  <2>. QED  BY <2>1, <2>2 DEF Covered, DigestPath
<1>4. ASSUME NEW s \in Syncers, Start(s) PROVE LoopInv(o)'
  <2>1. CASE s = o
    BY <1>2, <1>4, <2>1 DEF Start, Goto, loop, TypeOK
  <2>. QED  BY <1>1, <1>4, <2>1 DEF Start, Goto, loop, TypeOK
<1>5. ASSUME NEW s \in Syncers, RepoAdd(s) PROVE LoopInv(o)'
  <2>1. CASE s = o
    BY <1>2, <1>5, <2>1 DEF RepoAdd, Goto, loop, run, TypeOK
  <2>. QED  BY <1>1, <1>5, <2>1 DEF RepoAdd, Goto, loop, run, TypeOK
<1>6. ASSUME NEW s \in Syncers, Search(s) PROVE LoopInv(o)'
  <2>1. CASE s = o
    <3>1. synced[o] = {} /\ UNCHANGED synced
      BY <1>6, <2>1 DEF Search, TypeOK
    <3>2. CASE pc' = [pc EXCEPT ![o] = "panic"]
      BY <1>2, <3>1, <3>2 DEF TypeOK
    <3>3. CASE pc' = [pc EXCEPT ![o] = "next"] /\ todo' = [todo EXCEPT ![o] = listing'[o]]
      BY <3>1, <3>3 DEF TypeOK, LoopInv
    <3>. QED  BY <1>6, <2>1, <3>2, <3>3 DEF Search, Goto
  <2>. QED  BY <1>1, <1>6, <2>1 DEF Search, Goto, TypeOK
<1>7. ASSUME NEW s \in Syncers, NextResult(s) PROVE LoopInv(o)'
  <2>1. CASE s = o
    BY <1>3, <1>7, <2>1 DEF NextResult, IsTheChart, Goto, run, LoopInv, TypeOK
  <2>. QED  BY <1>1, <1>7, <2>1 DEF NextResult, IsTheChart, Goto, run, TypeOK
<1>8. ASSUME NEW s \in Syncers, CheckDigest(s) PROVE LoopInv(o)'
  <2>1. CASE s = o
    <3>1. UNCHANGED <<arg, listing, todo>> /\ pc[o] = "digest" /\ current[o].name = arg[o].name
      BY <1>8, <2>1 DEF CheckDigest, run, TypeOK
    <3>2. CASE pc' = [pc EXCEPT ![o] = "pull"] /\ UNCHANGED <<synced, current>>
      BY <1>3, <3>1, <3>2 DEF LoopInv, TypeOK
    <3>3. CASE /\ IsThere(arg[o], DigestPath(arg[o].name), current[o].version)
               /\ synced' = [synced EXCEPT ![o] = @ \cup {current[o]}]
               /\ pc' = [pc EXCEPT ![o] = "next"]
      <4>1. Covered(o, current[o])
        BY <3>1, <3>3 DEF Covered
      <4>. QED  BY <1>3, <3>1, <3>3, <4>1 DEF LoopInv, TypeOK
    <3>. QED  BY <1>8, <2>1, <3>2, <3>3 DEF CheckDigest, Goto
  <2>. QED  BY <1>1, <1>8, <2>1 DEF CheckDigest, Goto, run, TypeOK
<1>9. ASSUME NEW s \in Syncers, Pull(s) PROVE LoopInv(o)'
  <2>1. CASE s = o
    <3>1. /\ UNCHANGED <<arg, listing, todo, current, synced>> /\ pc[o] = "pull"
          /\ pc'[o] \in {"push", "panic"}
      BY <1>9, <2>1 DEF Pull, Goto, run, loop, TypeOK
    <3>. QED  BY <1>3, <3>1 DEF LoopInv
  <2>. QED  BY <1>1, <1>9, <2>1 DEF Pull, Goto, run, loop, TypeOK
<1>10. ASSUME NEW s \in Syncers, Push(s) PROVE LoopInv(o)'
  <2>1. CASE s = o
    <3>1. UNCHANGED <<arg, listing, todo>> /\ pc[o] = "push" /\ current[o].name = arg[o].name
      BY <1>10, <2>1 DEF Push, PushFails, run, TypeOK
    <3>2. CASE pc' = [pc EXCEPT ![o] = "panic"] /\ UNCHANGED <<synced, current>>
      BY <1>3, <3>1, <3>2 DEF LoopInv, TypeOK
    <3>3. CASE /\ synced' = [synced EXCEPT ![o] = @ \cup {current[o]}]
               /\ pc' = [pc EXCEPT ![o] = "next"]
               /\ Image(arg[o], PushPath(arg[o], tmp[current[o]]), tmp[current[o]].version,
                        tmp[current[o]]) \in images'
      <4>1. /\ tmp[current[o]] \in Charts /\ tmp[current[o]].version = current[o].version
            /\ PushPath(arg[o], tmp[current[o]]) = <<current[o].name, current[o].name>>
        BY <3>1, PushedImage DEF TypeOK, PushPath
      <4>2. ASSUME NEW r, r = current[o] PROVE Covered(o, r)'
        BY <3>1, <3>3, <4>1, <4>2 DEF Covered, IsThere, Image
      <4>. QED  BY <1>3, <3>1, <3>3, <4>2 DEF LoopInv, TypeOK
    <3>. QED  BY <1>10, <2>1, <3>2, <3>3 DEF Push, PushFails, Goto, WithFile
  <2>. QED  BY <1>1, <1>10, <2>1 DEF Push, PushFails, Goto, run, TypeOK
<1>11. ASSUME NEW s \in Syncers, Finish(s) PROVE LoopInv(o)'
  <2>1. CASE s = o
    BY <1>2, <1>11, <2>1 DEF Finish, Goto, TypeOK
  <2>. QED  BY <1>1, <1>11, <2>1 DEF Finish, Goto, TypeOK
<1>12. CASE Publish \/ UNCHANGED vars
  BY <1>1, <1>12 DEF Publish, vars, run, loop
<1>. QED
  BY <1>4, <1>5, <1>6, <1>7, <1>8, <1>9, <1>10, <1>11, <1>12 DEF Next, Step, Exit, Kill

\* An alias that has a URL keeps it.
LEMMA UrlKept ==
  ASSUME TypeOK, [Next]_vars, NEW a \in Aliases, repos[a] # Nil
  PROVE  repos'[a] = repos[a]
<1>1. ASSUME NEW s \in Syncers, RepoAdd(s) PROVE repos'[a] = repos[a]
  BY <1>1 DEF RepoAdd, helm, TypeOK
<1>. QED
  BY <1>1 DEF Next, Step, Start, Search, NextResult, IsTheChart, CheckDigest, Pull, Push,
              PushFails, Exit, Kill, Finish,
              Publish, vars, helm

LEMMA PulledPreserved == TypeOK /\ PushesWhatItPulled /\ [Next]_vars => PushesWhatItPulled'
<1>. SUFFICES ASSUME TypeOK, PushesWhatItPulled, [Next]_vars, NEW o \in Syncers,
                     pc'[o] = "push", ~overwritten'[o]
              PROVE  tmp'[current'[o]].url = repos'[arg'[o].alias]
  BY DEF PushesWhatItPulled
<1>1. ASSUME pc[o] = "push", ~overwritten[o], UNCHANGED <<arg[o], current[o]>>,
             tmp'[current[o]] = tmp[current[o]]
      PROVE  tmp'[current'[o]].url = repos'[arg'[o].alias]
  <2>1. tmp[current[o]] \in Charts /\ arg[o] \in Args
    BY <1>1 DEF TypeOK
  <2>2. repos[arg[o].alias] = tmp[current[o]].url
    BY <1>1 DEF PushesWhatItPulled
  <2>3. repos[arg[o].alias] # Nil /\ arg[o].alias \in Aliases
    BY <2>1, <2>2, SyncerAssumption DEF Charts, Aliases
  <2>. QED  BY <1>1, <2>2, <2>3, UrlKept
<1>2. ASSUME NEW s \in Syncers, Pull(s) PROVE tmp'[current'[o]].url = repos'[arg'[o].alias]
  <2>1. UNCHANGED <<repos, arg, current>> /\ pc[s] = "pull" /\ current[s] \in Results
    BY <1>2 DEF Pull, helm, run, loop, TypeOK
  <2>2. CASE pc' = [pc EXCEPT ![s] = "panic"] /\ UNCHANGED <<tmp, overwritten>>
    <3>1. o # s /\ pc[o] = "push"
      BY <2>1, <2>2 DEF TypeOK
    <3>. QED  BY <1>1, <2>1, <2>2, <3>1
  <2>3. CASE /\ pc' = [pc EXCEPT ![s] = "push"] /\ tmp' = [tmp EXCEPT ![current[s]] = Asked(s)]
             /\ overwritten' = [q \in Syncers |->
                  IF q = s THEN FALSE ELSE overwritten[q] \/ current[q] = current[s]]
    <3>1. CASE o = s
      BY <2>1, <2>3, <3>1 DEF TypeOK, Asked
    <3>2. CASE o # s
      <4>1. pc[o] = "push" /\ ~overwritten[o] /\ current[o] # current[s]
        BY <2>3, <3>2 DEF TypeOK
      <4>2. tmp'[current[o]] = tmp[current[o]]
        BY <2>1, <2>3, <4>1 DEF TypeOK
      <4>. QED  BY <1>1, <2>1, <4>1, <4>2
    <3>. QED  BY <3>1, <3>2
  <2>. QED  BY <1>2, <2>2, <2>3 DEF Pull, Pulled, Goto
<1>3. ASSUME NEW s \in Syncers,
             Start(s) \/ RepoAdd(s) \/ Search(s) \/ NextResult(s) \/ CheckDigest(s) \/ Push(s)
               \/ Finish(s)
      PROVE  tmp'[current'[o]].url = repos'[arg'[o].alias]
  <2>1. pc'[s] # "push" /\ UNCHANGED tmp
    BY <1>3 DEF Start, RepoAdd, Search, NextResult, IsTheChart, CheckDigest, Push,
                PushFails, Finish, Goto, TypeOK
  <2>2. o # s
    BY <2>1
  <2>3. pc[o] = "push" /\ ~overwritten[o] /\ UNCHANGED <<arg[o], current[o]>>
    BY <1>3, <2>2 DEF Start, RepoAdd, Search, NextResult, IsTheChart, CheckDigest, Push,
                      PushFails, Finish, Goto, run,
                      loop, TypeOK
  <2>. QED  BY <1>1, <2>1, <2>3
<1>4. CASE Publish \/ UNCHANGED vars
  BY <1>1, <1>4 DEF Publish, vars, run, loop
<1>. QED  BY <1>2, <1>3, <1>4 DEF Next, Step, Exit, Kill

-----------------------------------------------------------------------------
THEOREM Invariant == Spec => []Inv
<1>1. Init => Inv
  BY InitTypeOK DEF Init, Inv, LoopInv, PushesWhatItPulled
<1>2. Inv /\ [Next]_vars => Inv'
  BY TypeOKPreserved, PulledPreserved, LoopPreserved DEF Inv
<1>. QED  BY <1>1, <1>2, PTL DEF Spec

\* A run that ends by itself has an image of every version it was listed.
THEOREM EndMeansSynced == Spec => []DoneMeansSynced
<1>1. Inv => DoneMeansSynced
  BY DEF Inv, DoneMeansSynced, LoopInv, Covered
<1>. QED  BY <1>1, Invariant, PTL

\* A run pushes what it pulled, but for another that pulls the same file meanwhile.
THEOREM PushOwnFile == Spec => []PushesWhatItPulled
BY Invariant, PTL DEF Inv

-----------------------------------------------------------------------------
LEMMA PushCopies ==
  ASSUME TypeOK, NEW s \in Syncers, Push(s), ~UNCHANGED images
  PROVE  Mirror!Copy
<1>. DEFINE c == tmp[current[s]]
            i == Image(arg[s], PushPath(arg[s], c), c.version, c)
<1>1. pc[s] = "push" /\ UNCHANGED source
  BY DEF Push, PushFails
<1>2. /\ c \in source /\ c \in Charts /\ c.name = arg[s].name
      /\ i \in [registry : Registries, repo : Paths, tag : Versions, chart : source]
      /\ i.repo = <<arg[s].name, arg[s].name>>
  BY <1>1, PushedImage DEF TypeOK
<1>3. i.registry = arg[s].registry /\ i.repo = PushPath(arg[s], c) /\ i.tag = c.version
        /\ i.chart = c
  BY DEF Image
<1>4. images' = {j \in images : ~Replaces(i, j)} \cup {i}
  BY DEF Push, PushFails, WithFile
<1>. HIDE DEF c, i
<1>5. i.repo[Len(i.repo)] = c.name
  BY <1>2
<1>6. i \in Mirror!Images
  BY <1>2, <1>3 DEF Mirror!Images
<1>7. images' = {j \in images : Mirror!Place(j) # Mirror!Place(i)} \cup {i}
  BY <1>4 DEF Mirror!Place, Replaces
<1>. QED  BY <1>1, <1>2, <1>3, <1>5, <1>6, <1>7 DEF Mirror!Copy

\* The syncer implements ChartMirror: every step publishes or copies one chart, or
\* leaves the sources and the registries alone.
THEOREM ImplementsMirror == Spec => MirrorsSource
<1>1. Init => Mirror!MirrorInit
  BY SyncerAssumption DEF Init, Mirror!MirrorInit, Mirror!Images, Image, Charts, Paths
<1>2. TypeOK /\ [Next]_vars => [Mirror!Publish \/ Mirror!Copy]_<<source, images>>
  <2>. SUFFICES ASSUME TypeOK, [Next]_vars
                PROVE  \/ Mirror!Publish \/ Mirror!Copy \/ UNCHANGED <<source, images>>
    OBVIOUS
  <2>1. ASSUME NEW s \in Syncers, Push(s)
        PROVE  Mirror!Copy \/ UNCHANGED <<source, images>>
    BY <2>1, PushCopies DEF Push, PushFails
  <2>2. ASSUME Publish PROVE Mirror!Publish
    BY <2>2, SyncerAssumption DEF Publish, Mirror!Publish, Charts
  <2>. QED
    BY <2>1, <2>2 DEF Next, Step, Start, RepoAdd, Search, NextResult, IsTheChart,
                      CheckDigest, Pull, Exit,
                      Kill, Finish, vars
<1>. QED  BY <1>1, <1>2, TypeCorrect, PTL DEF Spec, MirrorsSource, Mirror!MirrorSpec
=============================================================================
