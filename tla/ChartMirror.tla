---------------------------- MODULE ChartMirror ----------------------------
(***************************************************************************)
(* What the chart syncer promises: registries that only ever gain charts   *)
(* which a chart source has published, each under its own name and         *)
(* version.  An image is [registry, repo, tag, chart], where repo is the   *)
(* path to it; a chart is [url, name, version].                            *)
(***************************************************************************)
EXTENDS Sequences

CONSTANTS Charts, Registries, Paths

VARIABLES
  source,  \* the charts that the sources have published
  images   \* what the registries hold

Images == [registry : Registries, repo : Paths, tag : {c.version : c \in Charts},
           chart : Charts]

Place(i) == <<i.registry, i.repo, i.tag>>

MirrorInit == source \subseteq Charts /\ images \subseteq Images

Publish == \E c \in Charts \ source : source' = source \cup {c} /\ UNCHANGED images

\* One image is put in its place; whatever else was there stays.
Copy ==
  \E i \in Images :
    /\ i.chart \in source
    /\ i.repo[Len(i.repo)] = i.chart.name /\ i.tag = i.chart.version
    /\ images' = {j \in images : Place(j) # Place(i)} \cup {i}
    /\ UNCHANGED source

MirrorSpec == MirrorInit /\ [][Publish \/ Copy]_<<source, images>>
=============================================================================
