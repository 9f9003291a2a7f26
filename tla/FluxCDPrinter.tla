---------------------------- MODULE FluxCDPrinter ----------------------------
(***************************************************************************)
(* FluxCDCommandPrinter.Do of src/fluxcd/main.go: it reads a chart and the *)
(* URL of its HelmRepository from the cluster, composes a helm command in  *)
(* a buffer and writes that.  One printer serves several calls, whose      *)
(* fields its owner sets; the cluster's objects change meanwhile.          *)
(*                                                                         *)
(* A line of the command is [options, more]: the flags it gives, as pairs, *)
(* and whether it ends in " \", which is also what Truncate(3) removes.    *)
(***************************************************************************)
EXTENDS Naturals, Sequences

CONSTANTS
  Requests,     \* [kind, version, namespace, useFile]: Version or Namespace may be Nil
  Urls,         \* the URLs a HelmRepository may have
  OciUrls,      \* those with the scheme oci
  SourceName,   \* the name of the source, which stands for the URL of other kinds
  Changes,      \* values, lists of which differ from the chart's own
  Multiline,    \* those that contain a newline
  ChangeLists,  \* what the caller's values change in a version of the chart
  Nil,
  MaxCalls, MaxEdits  \* bounds: calls of Do, changes of the cluster

ASSUME PrinterAssumption ==
  /\ OciUrls \subseteq Urls /\ SourceName \notin OciUrls /\ Multiline \subseteq Changes
  /\ ChangeLists \subseteq Seq(Changes) /\ MaxCalls \in Nat /\ MaxEdits \in Nat
  /\ Nil \notin ChangeLists /\ Nil \notin Requests
  /\ Nil \notin Urls \cup {SourceName, "ok", "error"}

VARIABLES
  url,         \* the URL in the HelmRepository
  changes,     \* what the values change in the chart, as it is now
  edits,       \* changes of the cluster (for the bound)
  pc, request, \* where Do is, and the printer's fields
  chrt,        \* what the values change in the chart it read
  repoURL,     \* the URL it goes by
  buf,         \* its buffer
  valuesFile,  \* the printer's field: the values it has put in the file
  out,         \* the lines that W received
  answer,      \* of the last call
  calls,       \* of Do
  had          \* the URLs of the HelmRepository in the course of the call

cluster == <<url, changes, edits>>
vars == <<cluster, pc, request, chrt, repoURL, buf, valuesFile, out, answer, calls, had>>

Line(options) == [options |-> options, more |-> TRUE]
If(condition, options) == IF condition THEN options ELSE {}

\* The first line, which gives the chart by its URL in a registry or by its name, and
\* for a repository that is not a registry the second.
Head1(r, u) ==
  IF u \in OciUrls
  THEN <<Line({<<"chart", u>>} \cup If(r.version # Nil, {<<"version", r.version>>}))>>
  ELSE <<Line({<<"name", Nil>>}),
         Line({<<"repo", u>>} \cup If(r.version # Nil, {<<"version", r.version>>}))>>

Flags(r) ==
  (IF r.namespace = Nil THEN <<>> ELSE <<Line({<<"namespace", r.namespace>>})>>)
    \o <<Line({<<"wait", Nil>>})>>

Sets(list) == [i \in DOMAIN list |-> Line({<<"set", list[i]>>})]

\* Mutant: the last line keeps its continuation.
CutNothing(lines) == lines

\* buf.Truncate(buf.Len() - 3), and the newline that ends the command.
CutContinuation(lines) == [lines EXCEPT ![Len(lines)].more = FALSE]

Compose(r, u, list) ==
  LET lines == Head1(r, u) \o Flags(r)
  IN IF r.useFile THEN Append(lines, [Line({<<"values", "values.yaml">>}) EXCEPT !.more = FALSE])
     ELSE CutContinuation(lines \o Sets(list))

-----------------------------------------------------------------------------
Init ==
  /\ url \in Urls /\ changes \in ChangeLists /\ edits = 0
  /\ pc = "idle" /\ request = Nil /\ chrt = Nil /\ repoURL = Nil
  /\ buf = <<>> /\ valuesFile = Nil /\ out = <<>>
  /\ answer = Nil /\ calls = 0 /\ had = {}

\* An error ends the call.
Fails == pc' = "idle" /\ answer' = "error"

\* The owner sets the fields, W among them, and calls Do.
Begin ==
  /\ pc = "idle" /\ calls < MaxCalls /\ calls' = calls + 1
  /\ request' \in Requests
  /\ pc' = "chart" /\ answer' = Nil
  /\ chrt' = Nil /\ repoURL' = Nil /\ buf' = <<>> /\ out' = <<>>
  /\ had' = {url}
  /\ UNCHANGED <<cluster, valuesFile>>

\* Mutant: only a HelmRepository gives the URL its value.
NoURL == Nil

\* What stands for the URL until it is known.
InitialURL == SourceName

\* Registry.GetChart.
GetChart ==
  /\ pc = "chart"
  /\ \/ Fails /\ UNCHANGED <<chrt, repoURL>>
     \/ /\ chrt' = changes
        /\ repoURL' = InitialURL
        /\ pc' = IF request.kind = "HelmRepository" THEN "repository" ELSE "compose"
        /\ UNCHANGED answer
  /\ UNCHANGED <<cluster, request, buf, valuesFile, out, calls, had>>

\* Mutant: the name of the repository does for its URL.
GetNoHelmRepository ==
  /\ pc = "repository" /\ pc' = "compose"
  /\ UNCHANGED <<cluster, request, chrt, repoURL, buf, valuesFile, out, answer, calls, had>>

\* A read of its own: the chart may be that of another state of the cluster.
GetHelmRepository ==
  /\ pc = "repository"
  /\ \/ Fails /\ UNCHANGED repoURL
     \/ repoURL' = url /\ pc' = "compose" /\ UNCHANGED answer
  /\ UNCHANGED <<cluster, request, chrt, buf, valuesFile, out, calls, had>>

\* Mutant: the values file of an earlier call is kept.
OldValuesFile == IF request.useFile /\ valuesFile = Nil THEN chrt ELSE valuesFile

NewValuesFile == IF request.useFile THEN chrt ELSE valuesFile

\* A URL that does not parse, values that cannot be merged or compared, and in a
\* --set line a newline are errors.  The values file is set as soon as it is known.
ComposeCommand ==
  /\ pc = "compose"
  /\ \/ Fails /\ UNCHANGED <<buf, valuesFile>>
     \/ Fails /\ request.useFile /\ valuesFile' = Nil /\ UNCHANGED buf
     \/ /\ request.useFile \/ \A i \in DOMAIN chrt : chrt[i] \notin Multiline
        /\ buf' = Compose(request, repoURL, chrt)
        /\ valuesFile' = NewValuesFile
        /\ pc' = "write" /\ UNCHANGED answer
  /\ UNCHANGED <<cluster, request, chrt, repoURL, out, calls, had>>

\* W takes all of the buffer, or fails somewhere on the way; a line that it took in
\* part is not a line of out.
Write ==
  /\ pc = "write"
  /\ \/ out' = buf /\ pc' = "idle" /\ answer' = "ok"
     \/ \E n \in 0..Len(buf) - 1 : out' = SubSeq(buf, 1, n) /\ Fails
  /\ UNCHANGED <<cluster, request, chrt, repoURL, buf, valuesFile, calls, had>>

\* Somebody changes the HelmRepository, or publishes another chart.
Edit ==
  /\ edits < MaxEdits /\ edits' = edits + 1
  /\ \/ url' \in Urls \ {url} /\ UNCHANGED changes
     \/ changes' \in ChangeLists \ {changes} /\ UNCHANGED url
  /\ had' = had \cup {url'}
  /\ UNCHANGED <<pc, request, chrt, repoURL, buf, valuesFile, out, answer, calls>>

Next == Begin \/ GetChart \/ GetHelmRepository \/ ComposeCommand \/ Write \/ Edit

Spec == Init /\ [][Next]_vars

-----------------------------------------------------------------------------
\* What a shell runs: the lines up to the first without a continuation, if any.
Ended == \E i \in DOMAIN out : ~out[i].more
Command ==
  LET end == CHOOSE i \in DOMAIN out : ~out[i].more /\ \A j \in 1..i - 1 : out[j].more
  IN UNION {out[i].options : i \in 1..end}
Given(flag) == {v \in Changes \cup Urls \cup {r.version : r \in Requests}
                     \cup {SourceName} : <<flag, v>> \in Command}

\* Every variable has its type, and the printer's locals are there when used.
TypeOK ==
  /\ url \in Urls /\ changes \in ChangeLists /\ edits \in 0..MaxEdits
  /\ pc \in {"idle", "chart", "repository", "compose", "write"}
  /\ request \in Requests \cup {Nil} /\ chrt \in ChangeLists \cup {Nil}
  /\ pc \in {"repository", "compose", "write"} => chrt # Nil /\ repoURL # Nil
  /\ repoURL \in Urls \cup {SourceName, Nil} /\ had \subseteq Urls
  /\ valuesFile \in ChangeLists \cup {Nil}
  /\ pc = "write" => buf # <<>>
  /\ answer \in {"ok", "error", Nil} /\ calls \in 0..MaxCalls

\* Do prints one whole command, which ends with its last line and not before, or,
\* when it answers an error, never the whole line that ends it: what a write that
\* broke off has printed goes on, or stops within a line.
AllOrNothing ==
  /\ answer = "ok" => Ended /\ \A i \in DOMAIN out : out[i].more <=> i < Len(out)
  /\ answer = "error" => ~Ended

\* The command a shell reads from the output gives the values that differ from those
\* of the chart that was read: as --set flags, all of them and no others, or in the
\* values file, which is then that of this call and not of one before.
ValuesReachTheChart ==
  answer = "ok" =>
    IF request.useFile THEN valuesFile = chrt /\ <<"values", "values.yaml">> \in Command
                       ELSE Given("set") = {chrt[i] : i \in DOMAIN chrt}

\* The command names one source: for a HelmRepository a URL that the object had at
\* some time of the call, for others the name of the source; in the form that helm
\* takes for it; and the version, if one was asked for.
CommandNamesItsSource ==
  answer = "ok" =>
    LET sources == Given("chart") \cup Given("repo")
    IN /\ \E u \in IF request.kind = "HelmRepository" THEN had ELSE {SourceName} :
            sources = {u} /\ (u \in OciUrls <=> Given("repo") = {})
       /\ Given("version") = {request.version} \ {Nil}
=============================================================================
