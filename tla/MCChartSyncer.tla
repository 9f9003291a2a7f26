---------------------------- MODULE MCChartSyncer ----------------------------
(* Instances of ChartSyncer: a repository with two versions of a chart, one *)
(* with build metadata, and a chart of a longer name, and another one with  *)
(* a chart of the same name; an alias for each.                             *)
EXTENDS ChartSyncer, TLC

CONSTANTS flux, extra, ghcr, v1, v2, flux2, flux2sync

Args2 == {[alias |-> "flux", url |-> flux, name |-> flux2, registry |-> ghcr],
          [alias |-> "extra", url |-> extra, name |-> flux2, registry |-> ghcr]}
Args1 == {[alias |-> "flux", url |-> flux, name |-> flux2, registry |-> ghcr]}

Chart(url, name, version) == [url |-> url, name |-> name, version |-> version]
Catalogue4 == {Chart(flux, flux2, v1), Chart(flux, flux2, v2), Chart(flux, flux2sync, v1),
               Chart(extra, flux2, v1)}
Leftovers1 == {Chart(extra, flux2, v1)}
Upcoming1 == {Chart(extra, flux2, v2)}
Stock1 == {Chart(flux, flux2, v2)}
==============================================================================
