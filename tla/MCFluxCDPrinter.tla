-------------------------- MODULE MCFluxCDPrinter --------------------------
(* Instances of FluxCDPrinter: every form of request; a chart repository    *)
(* and a registry; no changed values, one, two, and one with a newline.     *)
EXTENDS FluxCDPrinter

CONSTANTS web, oci, source, v1, ns, a, b, newline

AllRequests == [kind : {"HelmRepository", "Legacy"}, version : {v1, Nil},
                namespace : {ns, Nil}, useFile : BOOLEAN]
Lists == {<<>>, <<a>>, <<a, b>>, <<a, newline>>}
============================================================================
