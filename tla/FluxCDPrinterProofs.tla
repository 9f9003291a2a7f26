------------------------- MODULE FluxCDPrinterProofs -------------------------
(***************************************************************************)
(* The printer's properties, for all requests, URLs, values and bounds:    *)
(* what Compose gives is one whole command with the options asked for, and *)
(* what a call that succeeds has printed is what Compose gave.             *)
(***************************************************************************)
EXTENDS FluxCDPrinter, SequenceTheorems, TLAPS

Arguments == Changes \cup Urls \cup {r.version : r \in Requests} \cup {SourceName}
Pairs == {"chart", "name", "repo", "version", "namespace", "wait", "set", "values"}
           \X (Arguments \cup {r.namespace : r \in Requests} \cup {Nil, "values.yaml"})
Lines == [options : SUBSET Pairs, more : BOOLEAN]
Begun == [options : SUBSET Pairs, more : {TRUE}]

AllOptions(lines) == UNION {lines[i].options : i \in DOMAIN lines}

\* A command that ends with its last line and not before.
Whole(lines) ==
  /\ lines \in Seq(Lines) /\ Len(lines) > 0
  /\ \A i \in 1..Len(lines) : lines[i].more <=> i < Len(lines)

LEMMA LineIsBegun ==
  ASSUME NEW o \in SUBSET Pairs
  PROVE  /\ Line(o) \in Begun /\ Line(o).options = o
         /\ <<Line(o)>> \in Seq(Begun) /\ AllOptions(<<Line(o)>>) = o
<1>1. Line(o) \in Begun /\ Line(o).options = o
  BY DEF Line, Begun
<1>2. DOMAIN <<Line(o)>> = {1} /\ <<Line(o)>>[1] = Line(o)
  OBVIOUS
<1>3. AllOptions(<<Line(o)>>) = o
  BY <1>1, <1>2 DEF AllOptions
<1>. QED  BY <1>1, <1>3

LEMMA OptionsOfConcat ==
  ASSUME NEW s \in Seq(Lines), NEW t \in Seq(Lines)
  PROVE  AllOptions(s \o t) = AllOptions(s) \cup AllOptions(t)
<1>. DEFINE n == Len(s)
<1>1. /\ s \o t \in Seq(Lines) /\ n \in Nat /\ Len(t) \in Nat
      /\ Len(s \o t) = n + Len(t)
      /\ \A i \in 1..n : (s \o t)[i] = s[i]
      /\ \A i \in 1..Len(t) : (s \o t)[n + i] = t[i]
  BY ConcatProperties, LenProperties
<1>2. /\ DOMAIN (s \o t) = 1..(n + Len(t)) /\ DOMAIN s = 1..n /\ DOMAIN t = 1..Len(t)
  BY <1>1, LenProperties
<1>. HIDE DEF n
<1>3. ASSUME NEW x \in AllOptions(s \o t) PROVE x \in AllOptions(s) \cup AllOptions(t)
  <2>1. PICK i \in 1..(n + Len(t)) : x \in (s \o t)[i].options
    BY <1>2, <1>3 DEF AllOptions
  <2>2. CASE i <= n
    BY <1>1, <1>2, <2>1, <2>2 DEF AllOptions
  <2>3. CASE i > n
    <3>1. i - n \in 1..Len(t) /\ n + (i - n) = i
      BY <1>1, <2>3
    <3>2. x \in t[i - n].options
      BY <1>1, <2>1, <3>1
    <3>. QED  BY <1>2, <3>1, <3>2 DEF AllOptions
  <2>. QED  BY <1>1, <2>2, <2>3
<1>4. ASSUME NEW x \in AllOptions(s) PROVE x \in AllOptions(s \o t)
  <2>1. PICK i \in 1..n : x \in s[i].options
    BY <1>2, <1>4 DEF AllOptions
  <2>2. i \in 1..(n + Len(t)) /\ (s \o t)[i] = s[i]
    BY <1>1
  <2>. QED  BY <1>2, <2>1, <2>2 DEF AllOptions
<1>5. ASSUME NEW x \in AllOptions(t) PROVE x \in AllOptions(s \o t)
  <2>1. PICK i \in 1..Len(t) : x \in t[i].options
    BY <1>2, <1>5 DEF AllOptions
  <2>2. n + i \in 1..(n + Len(t)) /\ (s \o t)[n + i] = t[i]
    BY <1>1
  <2>. QED  BY <1>2, <2>1, <2>2 DEF AllOptions
<1>. QED  BY <1>3, <1>4, <1>5

LEMMA BegunIsLines == Begun \subseteq Lines /\ Seq(Begun) \subseteq Seq(Lines)
<1>1. Begun \subseteq Lines
  BY DEF Begun, Lines
<1>. QED  BY <1>1, SeqMonotonic

\* A sequence of lines that all go on, put after another such sequence.
LEMMA BegunConcat ==
  ASSUME NEW s \in Seq(Begun), NEW t \in Seq(Begun)
  PROVE  /\ s \o t \in Seq(Begun) /\ Len(s \o t) = Len(s) + Len(t)
         /\ AllOptions(s \o t) = AllOptions(s) \cup AllOptions(t)
  BY ConcatProperties, BegunIsLines, OptionsOfConcat

\* Truncate(3) makes a whole command of lines that all go on, and takes no option away.
LEMMA CutIsWhole ==
  ASSUME NEW s \in Seq(Begun), Len(s) > 0
  PROVE  Whole(CutContinuation(s)) /\ AllOptions(CutContinuation(s)) = AllOptions(s)
<1>. DEFINE n == Len(s)
            c == CutContinuation(s)
<1>1. n \in Nat /\ n > 0 /\ DOMAIN s = 1..n /\ \A i \in 1..n : s[i] \in Begun
  BY LenProperties, ElementOfSeq
<1>2. /\ DOMAIN c = 1..n
      /\ \A i \in 1..n : c[i] = IF i = n THEN [s[i] EXCEPT !.more = FALSE] ELSE s[i]
  BY <1>1 DEF CutContinuation
<1>3. \A i \in 1..n : /\ c[i] \in Lines /\ c[i].options = s[i].options
                      /\ c[i].more <=> i # n
  BY <1>1, <1>2 DEF Begun, Lines
<1>4. c \in Seq(Lines) /\ Len(c) = n
  <2>. DEFINE last == [s[n] EXCEPT !.more = FALSE]
  <2>1. last \in Lines /\ n \in 1..n /\ s \in Seq(Lines)
    <3>1. n \in 1..n /\ s \in Seq(Lines)
      BY <1>1, BegunIsLines
    <3>2. s[n] \in Begun
      BY <1>1, <3>1
    <3>3. last \in Lines
      BY <3>2 DEF Begun, Lines
    <3>. QED  BY <3>1, <3>3
  <2>2. c = [s EXCEPT ![n] = last]
    BY <1>1 DEF CutContinuation
  <2>. HIDE DEF last
  <2>3. /\ [s EXCEPT ![n] = last] \in Seq(Lines)
        /\ Len([s EXCEPT ![n] = last]) = n
    BY <2>1, ExceptSeq
  <2>. QED  BY <2>2, <2>3
<1>. HIDE DEF c, n
<1>5. Whole(c)
  BY <1>1, <1>3, <1>4 DEF Whole
<1>6. AllOptions(c) = AllOptions(s)
  BY <1>1, <1>2, <1>3 DEF AllOptions
<1>. QED  BY <1>5, <1>6 DEF c

\* A last line without a continuation does, too.
LEMMA AppendIsWhole ==
  ASSUME NEW s \in Seq(Begun), NEW o \in SUBSET Pairs
  PROVE  LET end == [Line(o) EXCEPT !.more = FALSE]
         IN Whole(Append(s, end)) /\ AllOptions(Append(s, end)) = AllOptions(s) \cup o
<1>. DEFINE end == [Line(o) EXCEPT !.more = FALSE]
            c == Append(s, end)
            n == Len(s)
<1>1. end \in Lines /\ end.options = o /\ ~end.more
  BY DEF Line, Lines
<1>2. n \in Nat /\ DOMAIN s = 1..n /\ s \in Seq(Lines) /\ \A i \in 1..n : s[i] \in Begun
  BY LenProperties, ElementOfSeq, BegunIsLines
<1>. HIDE DEF end
<1>3. /\ c \in Seq(Lines) /\ Len(c) = n + 1 /\ c[n + 1] = end
      /\ \A i \in 1..n : c[i] = s[i]
  BY <1>1, <1>2, AppendProperties
<1>4. DOMAIN c = 1..(n + 1)
  BY <1>3, LenProperties
<1>. HIDE DEF c, n
<1>5. Whole(c)
  <2>1. \A i \in 1..n : s[i].more
    BY <1>2 DEF Begun
  <2>2. \A i \in 1..(n + 1) : c[i].more <=> i < n + 1
    BY <1>1, <1>2, <1>3, <2>1
  <2>. QED  BY <1>2, <1>3, <2>2 DEF Whole
<1>6. AllOptions(c) = AllOptions(s) \cup o
  <2>1. 1..(n + 1) = 1..n \cup {n + 1}
    BY <1>2
  <2>. QED  BY <1>1, <1>2, <1>3, <1>4, <2>1 DEF AllOptions
<1>. QED  BY <1>5, <1>6 DEF c, end

\* The options of the command that a request asks for.
Asked(r, u, list) ==
  (IF u \in OciUrls THEN {<<"chart", u>>} ELSE {<<"name", Nil>>, <<"repo", u>>})
    \cup If(r.version # Nil, {<<"version", r.version>>})
    \cup If(r.namespace # Nil, {<<"namespace", r.namespace>>})
    \cup {<<"wait", Nil>>}
    \cup (IF r.useFile THEN {<<"values", "values.yaml">>}
                       ELSE {<<"set", list[i]>> : i \in DOMAIN list})

LEMMA HeadHasSource ==
  ASSUME NEW r \in Requests, NEW u \in Urls \cup {SourceName}
  PROVE  /\ Head1(r, u) \in Seq(Begun)
         /\ AllOptions(Head1(r, u)) =
              (IF u \in OciUrls THEN {<<"chart", u>>} ELSE {<<"name", Nil>>, <<"repo", u>>})
                \cup If(r.version # Nil, {<<"version", r.version>>})
<1>. DEFINE version == If(r.version # Nil, {<<"version", r.version>>})
<1>1. /\ version \in SUBSET Pairs /\ {<<"chart", u>>} \in SUBSET Pairs
      /\ {<<"name", Nil>>} \in SUBSET Pairs /\ {<<"repo", u>>} \in SUBSET Pairs
  BY DEF If, Pairs, Arguments
<1>. HIDE DEF version
<1>2. CASE u \in OciUrls
  <2>1. Head1(r, u) = <<Line({<<"chart", u>>} \cup version)>>
    BY <1>2 DEF Head1, version
  <2>2. {<<"chart", u>>} \cup version \in SUBSET Pairs
    BY <1>1
  <2>. QED  BY <1>2, <2>1, <2>2, LineIsBegun DEF version
<1>3. CASE u \notin OciUrls
  <2>. DEFINE name == <<Line({<<"name", Nil>>})>>
              repo == <<Line({<<"repo", u>>} \cup version)>>
  <2>1. Head1(r, u) = name \o repo
    BY <1>3 DEF Head1, version
  <2>2. {<<"repo", u>>} \cup version \in SUBSET Pairs
    BY <1>1
  <2>3. name \in Seq(Begun) /\ AllOptions(name) = {<<"name", Nil>>}
    BY <1>1, LineIsBegun
  <2>4. repo \in Seq(Begun) /\ AllOptions(repo) = {<<"repo", u>>} \cup version
    BY <2>2, LineIsBegun
  <2>. HIDE DEF name, repo
  <2>5. /\ name \o repo \in Seq(Begun)
        /\ AllOptions(name \o repo) = {<<"name", Nil>>} \cup {<<"repo", u>>} \cup version
    BY <2>3, <2>4, BegunConcat
  <2>. QED  BY <1>3, <2>1, <2>5 DEF version
<1>. QED  BY <1>2, <1>3

LEMMA FlagsAreAsked ==
  ASSUME NEW r \in Requests
  PROVE  /\ Flags(r) \in Seq(Begun) /\ Len(Flags(r)) > 0
         /\ AllOptions(Flags(r)) =
              If(r.namespace # Nil, {<<"namespace", r.namespace>>}) \cup {<<"wait", Nil>>}
<1>. DEFINE wait == <<Line({<<"wait", Nil>>})>>
            namespace == IF r.namespace = Nil THEN <<>>
                         ELSE <<Line({<<"namespace", r.namespace>>})>>
<1>1. {<<"wait", Nil>>} \in SUBSET Pairs /\ {<<"namespace", r.namespace>>} \in SUBSET Pairs
  BY DEF Pairs
<1>2. wait \in Seq(Begun) /\ AllOptions(wait) = {<<"wait", Nil>>} /\ Len(wait) = 1
  BY <1>1, LineIsBegun
<1>3. /\ namespace \in Seq(Begun)
      /\ AllOptions(namespace) = If(r.namespace # Nil, {<<"namespace", r.namespace>>})
  <2>1. CASE r.namespace = Nil
    <3>1. namespace = <<>> /\ <<>> \in Seq(Begun) /\ DOMAIN <<>> = {}
      BY <2>1
    <3>. QED  BY <2>1, <3>1 DEF AllOptions, If
  <2>2. CASE r.namespace # Nil
    BY <1>1, <2>2, LineIsBegun DEF If
  <2>. QED  BY <2>1, <2>2
<1>4. Flags(r) = namespace \o wait
  BY DEF Flags
<1>. HIDE DEF wait, namespace
<1>5. Len(namespace) \in Nat
  BY <1>3, LenProperties
<1>6. /\ namespace \o wait \in Seq(Begun)
      /\ Len(namespace \o wait) = Len(namespace) + 1
      /\ AllOptions(namespace \o wait) = AllOptions(namespace) \cup AllOptions(wait)
  BY <1>2, <1>3, BegunConcat
<1>7. Len(Flags(r)) > 0
  BY <1>4, <1>5, <1>6
<1>. QED  BY <1>2, <1>3, <1>4, <1>6, <1>7

LEMMA SetsAreAsked ==
  ASSUME NEW list \in ChangeLists
  PROVE  /\ Sets(list) \in Seq(Begun)
         /\ AllOptions(Sets(list)) = {<<"set", list[i]>> : i \in DOMAIN list}
<1>. DEFINE n == Len(list)
<1>1. n \in Nat /\ DOMAIN list = 1..n /\ \A i \in 1..n : list[i] \in Changes
  <2>1. list \in Seq(Changes)
    BY PrinterAssumption
  <2>. QED  BY <2>1, LenProperties, ElementOfSeq
<1>. HIDE DEF n
<1>2. Sets(list) = [i \in 1..n |-> Line({<<"set", list[i]>>})]
  BY <1>1 DEF Sets
<1>3. \A i \in 1..n : {<<"set", list[i]>>} \in SUBSET Pairs
  BY <1>1 DEF Pairs, Arguments
<1>4. \A i \in 1..n : /\ Line({<<"set", list[i]>>}) \in Begun
                      /\ Line({<<"set", list[i]>>}).options = {<<"set", list[i]>>}
  BY <1>3, LineIsBegun
<1>5. Sets(list) \in Seq(Begun)
  <2>. DEFINE line(i) == Line({<<"set", list[i]>>})
  <2>1. \A i \in 1..n : line(i) \in Begun
    BY <1>4
  <2>. HIDE DEF line
  <2>2. [i \in 1..n |-> line(i)] \in Seq(Begun)
    BY <1>1, <2>1, IsASeq
  <2>. QED  BY <1>2, <2>2 DEF line
<1>6. DOMAIN Sets(list) = 1..n /\ \A i \in 1..n : Sets(list)[i].options = {<<"set", list[i]>>}
  BY <1>2, <1>4
<1>. QED  BY <1>1, <1>5, <1>6 DEF AllOptions

\* Compose gives one whole command, with the options that were asked for.
LEMMA ComposeIsAsked ==
  ASSUME NEW r \in Requests, NEW u \in Urls \cup {SourceName}, NEW list \in ChangeLists
  PROVE  /\ Whole(Compose(r, u, list))
         /\ AllOptions(Compose(r, u, list)) = Asked(r, u, list)
<1>. DEFINE lines == Head1(r, u) \o Flags(r)
            start == (IF u \in OciUrls THEN {<<"chart", u>>} ELSE {<<"name", Nil>>, <<"repo", u>>})
                       \cup If(r.version # Nil, {<<"version", r.version>>})
                       \cup If(r.namespace # Nil, {<<"namespace", r.namespace>>})
                       \cup {<<"wait", Nil>>}
<1>1. lines \in Seq(Begun) /\ Len(lines) > 0 /\ AllOptions(lines) = start
  <2>1. Len(Head1(r, u)) \in Nat /\ Len(Flags(r)) \in Nat /\ Len(Flags(r)) > 0
    BY HeadHasSource, FlagsAreAsked, LenProperties
  <2>2. /\ lines \in Seq(Begun) /\ Len(lines) = Len(Head1(r, u)) + Len(Flags(r))
        /\ AllOptions(lines) = AllOptions(Head1(r, u)) \cup AllOptions(Flags(r))
    BY HeadHasSource, FlagsAreAsked, BegunConcat
  <2>. DEFINE h == Len(Head1(r, u))
              f == Len(Flags(r))
              l == Len(lines)
  <2>3. l > 0
    <3>1. h \in Nat /\ f \in Nat /\ f > 0 /\ l = h + f
      BY <2>1, <2>2
    <3>. HIDE DEF h, f, l
    <3>. QED  BY <3>1
  <2>4. AllOptions(lines) = start
    BY <2>2, HeadHasSource, FlagsAreAsked
  <2>. QED  BY <2>2, <2>3, <2>4
<1>2. CASE r.useFile
  <2>. DEFINE o == {<<"values", "values.yaml">>}
  <2>1. o \in SUBSET Pairs
    BY DEF Pairs
  <2>2. Compose(r, u, list) = Append(lines, [Line(o) EXCEPT !.more = FALSE])
    BY <1>2 DEF Compose
  <2>3. Asked(r, u, list) = start \cup o
    BY <1>2 DEF Asked
  <2>. HIDE DEF lines, start, o
  <2>. QED  BY <1>1, <2>1, <2>2, <2>3, AppendIsWhole
<1>3. CASE ~r.useFile
  <2>1. Compose(r, u, list) = CutContinuation(lines \o Sets(list))
    BY <1>3 DEF Compose
  <2>2. Asked(r, u, list) = start \cup {<<"set", list[i]>> : i \in DOMAIN list}
    BY <1>3 DEF Asked
  <2>. HIDE DEF lines, start
  <2>3. Len(lines) \in Nat /\ Len(Sets(list)) \in Nat
    BY <1>1, SetsAreAsked, LenProperties
  <2>4. /\ lines \o Sets(list) \in Seq(Begun) /\ Len(lines \o Sets(list)) > 0
        /\ AllOptions(lines \o Sets(list)) = start \cup {<<"set", list[i]>> : i \in DOMAIN list}
    BY <1>1, <2>3, SetsAreAsked, BegunConcat
  <2>. QED  BY <2>1, <2>2, <2>4, CutIsWhole
<1>. QED  BY <1>2, <1>3

-----------------------------------------------------------------------------
\* Where the URL of the command comes from.
IsSource(u) ==
  IF request.kind = "HelmRepository" THEN u \in had ELSE u = SourceName

\* The printer's locals, from the read of the chart to the end of the call.
CallInv ==
  /\ pc # "idle" => request \in Requests /\ answer = Nil /\ out = <<>>
  /\ pc = "repository" => request.kind = "HelmRepository"
  /\ pc # "idle" => url \in had
  /\ pc \in {"compose", "write"} => IsSource(repoURL)
  /\ pc = "write" => buf = Compose(request, repoURL, chrt)

\* The file is set before the command is written, and after a call that succeeds it
\* is still what that call has set.
FileInv == pc = "write" \/ answer = "ok" => (request.useFile => valuesFile = chrt)

\* What a call that has ended has printed.
OutInv ==
  /\ answer = "ok" =>
       /\ request \in Requests /\ chrt \in ChangeLists /\ repoURL # Nil
       /\ IsSource(repoURL) /\ out = Compose(request, repoURL, chrt)
  /\ answer = "error" => \A i \in DOMAIN out : out[i].more

PrinterInv == TypeOK /\ CallInv /\ FileInv /\ OutInv

LEMMA PrinterInit == Init => PrinterInv
  BY PrinterAssumption DEF Init, PrinterInv, TypeOK, CallInv, FileInv, OutInv

LEMMA PrinterNext == PrinterInv /\ [Next]_vars => PrinterInv'
<1>. SUFFICES ASSUME PrinterInv, [Next]_vars PROVE PrinterInv'
  OBVIOUS
<1>. USE PrinterAssumption DEF PrinterInv, TypeOK, CallInv, FileInv, OutInv, cluster
<1>1. CASE Begin
  BY <1>1 DEF Begin
<1>2. CASE GetChart
  <2>1. CASE Fails
    BY <1>2, <2>1 DEF GetChart, Fails
  <2>2. CASE ~Fails
    BY <1>2, <2>2 DEF GetChart, InitialURL, IsSource
  <2>. QED  BY <2>1, <2>2
<1>3. CASE GetHelmRepository
  <2>1. CASE Fails
    BY <1>3, <2>1 DEF GetHelmRepository, Fails
  <2>2. CASE ~Fails
    BY <1>3, <2>2 DEF GetHelmRepository, IsSource
  <2>. QED  BY <2>1, <2>2
<1>4. CASE ComposeCommand
  <2>1. CASE Fails
    BY <1>4, <2>1 DEF ComposeCommand, Fails
  <2>2. CASE ~Fails
    <3>1. Whole(Compose(request, repoURL, chrt))
      BY <1>4, ComposeIsAsked DEF ComposeCommand
    <3>. QED  BY <1>4, <2>2, <3>1 DEF ComposeCommand, NewValuesFile, IsSource, Whole
  <2>. QED  BY <2>1, <2>2
<1>5. CASE Write
  <2>1. CASE Fails
    <3>1. Whole(buf)
      BY <1>5, ComposeIsAsked DEF Write
    <3>2. PICK n \in 0..Len(buf) - 1 : out' = SubSeq(buf, 1, n)
      BY <1>5, <2>1 DEF Write, Fails
    <3>3. \A i \in DOMAIN out' : out'[i].more
      <4>1. buf \in Seq(Lines) /\ n \in 0..Len(buf) - 1 /\ Len(buf) \in Nat
        BY <3>1, LenProperties DEF Whole
      <4>2. DOMAIN out' = 1..n /\ \A i \in 1..n : out'[i] = buf[i]
        BY <3>2, <4>1
      <4>. QED  BY <3>1, <4>1, <4>2 DEF Whole
    <3>. QED  BY <1>5, <2>1, <3>3 DEF Write, Fails
  <2>2. CASE ~Fails
    BY <1>5, <2>2 DEF Write, IsSource
  <2>. QED  BY <2>1, <2>2
<1>6. CASE Edit
  BY <1>6 DEF Edit, IsSource
<1>7. CASE UNCHANGED vars
  BY <1>7 DEF vars, IsSource
<1>. QED  BY <1>1, <1>2, <1>3, <1>4, <1>5, <1>6, <1>7 DEF Next

LEMMA PrinterInvariant == Spec => []PrinterInv
  BY PrinterInit, PrinterNext, PTL DEF Spec

\* A shell runs the whole of a whole command.
LEMMA CommandOfWhole ==
  ASSUME Whole(out)
  PROVE  /\ Ended /\ \A i \in DOMAIN out : out[i].more <=> i < Len(out)
         /\ Command = AllOptions(out)
<1>. DEFINE n == Len(out)
            Ends(i) == ~out[i].more /\ \A j \in 1..i - 1 : out[j].more
            end == CHOOSE i \in DOMAIN out : Ends(i)
<1>1. /\ n \in Nat /\ n > 0 /\ DOMAIN out = 1..n
      /\ \A i \in 1..n : out[i].more <=> i < n
  BY LenProperties DEF Whole
<1>. HIDE DEF n
<1>2. Ends(n) /\ n \in DOMAIN out /\ \A i \in DOMAIN out : Ends(i) => i = n
  BY <1>1
<1>3. end = n
  <2>. HIDE DEF Ends
  <2>. QED  BY <1>2
<1>4. Command = UNION {out[i].options : i \in 1..end}
  BY DEF Command
<1>. HIDE DEF end
<1>5. Command = AllOptions(out)
  BY <1>1, <1>3, <1>4 DEF AllOptions
<1>6. Ended
  BY <1>2 DEF Ended
<1>. QED  BY <1>1, <1>5, <1>6 DEF n

\* What a call that succeeded has printed.
LEMMA PrintedIsAsked ==
  ASSUME PrinterInv, answer = "ok"
  PROVE  /\ Whole(out) /\ Command = Asked(request, repoURL, chrt)
         /\ request \in Requests /\ chrt \in ChangeLists /\ IsSource(repoURL)
         /\ repoURL \in Urls \cup {SourceName}
<1>1. /\ request \in Requests /\ chrt \in ChangeLists /\ IsSource(repoURL)
      /\ repoURL \in Urls \cup {SourceName} /\ out = Compose(request, repoURL, chrt)
  BY DEF PrinterInv, OutInv, TypeOK
<1>2. Whole(out) /\ AllOptions(out) = Asked(request, repoURL, chrt)
  BY <1>1, ComposeIsAsked
<1>. QED  BY <1>1, <1>2, CommandOfWhole

\* Every variable has its type, and the printer's locals are there when used.
THEOREM PrinterTypes == Spec => []TypeOK
<1>1. PrinterInv => TypeOK
  BY DEF PrinterInv
<1>. QED  BY <1>1, PrinterInvariant, PTL

\* For every printer and every writer, a call of Do that answers nil has printed one
\* whole command, and a call that answers an error no whole command, however far its
\* write has come.
THEOREM CommandIsWhole == Spec => []AllOrNothing
<1>1. PrinterInv => AllOrNothing
  <2>. SUFFICES ASSUME PrinterInv PROVE AllOrNothing
    OBVIOUS
  <2>1. ASSUME answer = "ok" PROVE Ended /\ \A i \in DOMAIN out : out[i].more <=> i < Len(out)
    BY <2>1, PrintedIsAsked, CommandOfWhole
  <2>2. ASSUME answer = "error" PROVE ~Ended
    BY <2>2 DEF PrinterInv, OutInv, Ended
  <2>. QED  BY <2>1, <2>2 DEF AllOrNothing
<1>. QED  BY <1>1, PrinterInvariant, PTL

\* The values that differ from the chart's own reach the command, whatever they are:
\* each as a --set flag and nothing else as one, or in the values file of this call.
THEOREM ValuesArePrinted == Spec => []ValuesReachTheChart
<1>1. PrinterInv => ValuesReachTheChart
  <2>. SUFFICES ASSUME PrinterInv, answer = "ok"
                PROVE  IF request.useFile
                       THEN valuesFile = chrt /\ <<"values", "values.yaml">> \in Command
                       ELSE Given("set") = {chrt[i] : i \in DOMAIN chrt}
    BY DEF ValuesReachTheChart
  <2>1. Command = Asked(request, repoURL, chrt) /\ request \in Requests /\ chrt \in ChangeLists
    BY PrintedIsAsked
  <2>2. CASE request.useFile
    BY <2>1, <2>2 DEF Asked, PrinterInv, FileInv
  <2>3. CASE ~request.useFile
    <3>1. \A v : <<"set", v>> \in Command <=> v \in {chrt[i] : i \in DOMAIN chrt}
      BY <2>1, <2>3 DEF Asked, If
    <3>2. \A i \in DOMAIN chrt : chrt[i] \in Changes
      <4>1. chrt \in Seq(Changes)
        BY <2>1, PrinterAssumption
      <4>. QED  BY <4>1, LenProperties, ElementOfSeq
    <3>. QED  BY <2>3, <3>1, <3>2 DEF Given
  <2>. QED  BY <2>2, <2>3
<1>. QED  BY <1>1, PrinterInvariant, PTL

\* Whatever happens to the HelmRepository while Do runs, the command that is printed
\* names one source, one that the object had in the course of the call, in the form
\* that helm takes for it, and the version that was asked for.
THEOREM SourceIsNamed == Spec => []CommandNamesItsSource
<1>1. PrinterInv => CommandNamesItsSource
  <2>. SUFFICES ASSUME PrinterInv, answer = "ok"
                PROVE  /\ \E u \in IF request.kind = "HelmRepository" THEN had ELSE {SourceName} :
                            /\ Given("chart") \cup Given("repo") = {u}
                            /\ u \in OciUrls <=> Given("repo") = {}
                       /\ Given("version") = {request.version} \ {Nil}
    BY DEF CommandNamesItsSource
  <2>1. /\ Command = Asked(request, repoURL, chrt) /\ request \in Requests
        /\ IsSource(repoURL) /\ repoURL \in Urls \cup {SourceName}
    BY PrintedIsAsked
  <2>2. /\ repoURL \in Arguments /\ request.version \in Arguments
        /\ \A flag, v : v \in Given(flag) <=> v \in Arguments /\ <<flag, v>> \in Command
    BY <2>1 DEF Given, Arguments
  <2>3. \A v : <<"version", v>> \in Command <=> v = request.version /\ v # Nil
    BY <2>1 DEF Asked, If
  <2>4. Given("version") = {request.version} \ {Nil}
    <3>1. \A v : v \in Given("version") <=> v \in Arguments /\ <<"version", v>> \in Command
      BY <2>2
    <3>2. \A v : v \in Given("version") <=> v = request.version /\ v # Nil
      BY <2>2, <2>3, <3>1
    <3>. QED  BY <3>2
  <2>5. /\ \A v : <<"chart", v>> \in Command <=> v = repoURL /\ repoURL \in OciUrls
        /\ \A v : <<"repo", v>> \in Command <=> v = repoURL /\ repoURL \notin OciUrls
    BY <2>1 DEF Asked, If
  <2>6. /\ Given("chart") \cup Given("repo") = {repoURL}
        /\ repoURL \in OciUrls <=> Given("repo") = {}
    BY <2>2, <2>5
  <2>. QED  BY <2>1, <2>4, <2>6 DEF IsSource
<1>. QED  BY <1>1, PrinterInvariant, PTL
==============================================================================
