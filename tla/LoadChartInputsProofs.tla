------------------------ MODULE LoadChartInputsProofs ------------------------
(***************************************************************************)
(* Theorems about what LoadChart makes of its inputs, for any number of    *)
(* loads and whatever changes meanwhile: the login comes from the Secret,  *)
(* and the chart is one that was asked for.                                *)
(***************************************************************************)
EXTENDS LoadChartProofs

\* The cluster and the requests are what they may be, and every load has its locals.
EnvInv ==
  /\ cluster \in [Repositories -> RepoSpecs \cup {Nil}]
  /\ secrets \in [SecretNames -> SecretSpecs \cup {Nil}]
  /\ published \in [Hosts -> SUBSET Tags]
  /\ ref \in Requests
  /\ pc \in [Loads -> Steps]
  /\ \A f \in {repo, secret, login, cv, result, highs} : DOMAIN f = Loads

-----------------------------------------------------------------------------
(* The operators of RegistryAuth: from a Secret to a login.                *)

\* The credential that a Secret holds for a host, Nil if there is none.
Held(s, h) ==
  IF s.type # "docker" THEN Credential(s.username, s.password) ELSE s.config[h]

\* The Secret has decided on this login: the host's credential, or none for nobody.
Decided(s, h, option) ==
  /\ s.type = "docker" => s.config # Nil /\ Held(s, h) # Nil
  /\ option = IF Held(s, h) = Nobody THEN Nil ELSE Held(s, h)

LEMMA BlankIsNobody ==
  ASSUME NEW c \in Credentials
  PROVE  Blank(c) <=> c = Nobody
<1>1. c = [username |-> c.username, password |-> c.password]
  BY DEF Credentials
<1>2. Blank(c) => c = Nobody
  BY <1>1 DEF Blank, Nobody, Credential
<1>3. Blank(Nobody)
  BY DEF Blank, Nobody, Credential
<1>. QED  BY <1>2, <1>3

\* A Secret that is read has a credential for the host.
LEMMA ReadCredential ==
  ASSUME NEW s \in SecretSpecs, NEW url, url.host \in Hosts, ~SecretCredential(url, s).err
  PROVE  /\ SecretCredential(url, s).val = Held(s, url.host)
         /\ Held(s, url.host) \in Credentials
         /\ s.type = "docker" => s.config # Nil /\ Held(s, url.host) # Nil
<1>1. CASE s.type # "docker"
  BY <1>1, InputAssumption DEF SecretCredential, Ok, Held
<1>2. CASE s.type = "docker"
  <2>1. s.config # Nil /\ s.config[url.host] # Nil
    BY <1>2 DEF SecretCredential, Failed
  <2>. QED  BY <1>2, <2>1, InputAssumption DEF SecretCredential, Ok, Held
<1>. QED  BY <1>1, <1>2

\* A keychain for a host, or that of nobody, gives its credential back: as a login
\* when it is complete, as none when it is blank, and an error for an identity token.
LEMMA KeychainLogin ==
  ASSUME NEW c \in Credentials, NEW url, url.host \in Hosts, NEW k,
         \/ k = AnonymousKeychain /\ c = Nobody
         \/ k = [registry |-> url.host, cred |-> c] /\ Complete(c),
         ~MakeLoginOption(Nil, k, url).err
  PROVE  MakeLoginOption(Nil, k, url).val = IF c = Nobody THEN Nil ELSE c
<1>1. k # Nil
  <2>1. k \in {AnonymousKeychain} \cup [registry : Hosts, cred : Credentials]
    OBVIOUS
  <2>. QED  BY <2>1, InputAssumption
<1>2. MakeLoginOption(Nil, k, url) = AuthAdaptHelper(Resolve(k, url.host))
  BY <1>1 DEF MakeLoginOption, KeychainAdaptHelper, Failed
<1>3. CASE k = AnonymousKeychain /\ c = Nobody
  <2>1. Resolve(k, url.host) = Nobody
    BY <1>3 DEF Resolve, AnonymousKeychain, Nobody, Credential, TokenUsername
  <2>2. AuthAdaptHelper(Nobody) = Ok(Nil)
    BY DEF AuthAdaptHelper, Blank, Nobody, Credential
  <2>. QED  BY <1>2, <1>3, <2>1, <2>2 DEF Ok
<1>4. CASE k = [registry |-> url.host, cred |-> c] /\ Complete(c)
  <2>1. ~Blank(c) /\ c # Nobody
    BY <1>4, BlankIsNobody DEF Complete, Blank
  <2>2. Resolve(k, url.host) = c
    <3>1. CASE c.username = TokenUsername
      <4>1. Resolve(k, url.host) = Credential(TokenUsername, "")
        BY <1>4, <3>1 DEF Resolve
      <4>2. AuthAdaptHelper(Credential(TokenUsername, "")) = Failed
        BY DEF AuthAdaptHelper, Credential, Blank, Complete, TokenUsername
      <4>3. MakeLoginOption(Nil, k, url) = Failed
        BY <1>2, <4>1, <4>2
      <4>4. Failed.err
        BY DEF Failed
      <4>. QED  BY <4>3, <4>4
    <3>2. CASE c.username # TokenUsername
      BY <1>4, <3>2 DEF Resolve
    <3>. QED  BY <3>1, <3>2
  <2>. QED  BY <1>2, <1>4, <2>1, <2>2 DEF AuthAdaptHelper, Ok
<1>. QED  BY <1>3, <1>4

\* A load that goes on with a Secret goes on with the login that the Secret decides.
LEMMA SecretDecides ==
  ASSUME NEW s \in SecretSpecs, NEW url, url.host \in Hosts, ~LoginFromSecret(url, s).err
  PROVE  Decided(s, url.host, LoginFromSecret(url, s).val)
<1>. DEFINE k == LoginOptionFromSecret(url, s)
            c == Held(s, url.host)
<1>1. ~k.err /\ LoginFromSecret(url, s) = MakeLoginOption(Nil, k.val, url)
  BY DEF LoginFromSecret, Failed
<1>2. ~SecretCredential(url, s).err
  BY <1>1 DEF LoginOptionFromSecret, Failed
<1>3. /\ SecretCredential(url, s).val = c /\ c \in Credentials
      /\ s.type = "docker" => s.config # Nil /\ c # Nil
  BY <1>2, ReadCredential
<1>4. \/ k.val = AnonymousKeychain /\ c = Nobody
      \/ k.val = [registry |-> url.host, cred |-> c] /\ Complete(c)
  BY <1>1, <1>3, BlankIsNobody DEF LoginOptionFromSecret, Failed, Ok
<1>. HIDE DEF k, c
<1>5. MakeLoginOption(Nil, k.val, url).val = IF c = Nobody THEN Nil ELSE c
  BY <1>1, <1>3, <1>4, KeychainLogin
<1>. QED  BY <1>1, <1>3, <1>5 DEF Decided, c

-----------------------------------------------------------------------------
(* The copy of a HelmRepository, and the versions of its registry.         *)

\* A repository with a valid URL has a host and a reference, and normalizing the
\* URL touches neither.
LEMMA ValidRepository ==
  ASSUME NEW r \in RepoSpecs, ValidDepURL(NormalizeURL(r.url))
  PROVE  LET read == [r EXCEPT !.url = NormalizeURL(r.url)]
         IN  /\ read.url = NormalizeURL(r.url) /\ read.url # Nil
             /\ read.url.host \in Hosts
             /\ read.secretRef \in SecretNames \cup {Nil}
<1>1. r.url # Nil
  BY DEF ValidDepURL, NormalizeURL
<1>2. NormalizeURL(r.url).host = r.url.host /\ r.url.host \in Hosts
  BY <1>1, InputAssumption DEF NormalizeURL
<1>. QED  BY <1>1, <1>2, InputAssumption DEF ValidDepURL

\* What the code's own matching finds for a range is what the range should be
\* answered with: a tag that is listed and equal to the version would have been used
\* without a listing.
LEMMA ListedIsWanted ==
  ASSUME NEW pub \in SUBSET Tags, NEW req,
         req.range = Nil \/ (req.range.lo \in Nat /\ req.range.hi \in Nat),
         ~V!UsesDigest(req), ~V!UsesSemver(req),
         NEW t \in V!LastMatchingVersionOrConstraint(V!ListedTags(pub), req)
  PROVE  t \in Wanted(pub, req)
<1>1. req.tag \notin V!ListedTags(pub)
  BY InputAssumption DEF V!ListedTags, V!UsesSemver, V!Parses
<1>2. req.range # Nil /\ t \in V!Highest(V!Matching(V!ListedTags(pub), req.range))
  BY <1>1 DEF V!LastMatchingVersionOrConstraint
<1>. DEFINE fits == {u \in pub : /\ req.range # Nil /\ u.form = "strict"
                                 /\ req.range.lo <= u.core /\ u.core <= req.range.hi
                                 /\ u.pre # 0 => req.range.pre}
<1>3. \A u : u \in V!Matching(V!ListedTags(pub), req.range) <=> u \in fits
  BY <1>2, InputAssumption DEF V!Matching, V!ListedTags, V!Parses, V!Check
<1>4. t \in fits /\ \A u \in fits : ~V!Less(t, u)
  BY <1>2, <1>3 DEF V!Highest
<1>5. \A u \in fits : u.core \in Nat /\ u.pre \in Nat
  BY InputAssumption
<1>6. Wanted(pub, req) = {u \in fits : \A w \in fits :
        \/ w.core < u.core
        \/ w.core = u.core /\ (u.pre = 0 \/ w.pre \in 1 .. u.pre)}
  BY DEF Wanted
<1>. HIDE DEF fits
<1>7. \A u \in fits :
        \/ u.core < t.core
        \/ u.core = t.core /\ (t.pre = 0 \/ u.pre \in 1 .. t.pre)
  <2>. TAKE u \in fits
  <2>2. /\ t.core \in Nat /\ t.pre \in Nat /\ u.core \in Nat /\ u.pre \in Nat
        /\ ~(t.core < u.core \/ (t.core = u.core /\ t.pre # 0 /\ (u.pre = 0 \/ t.pre < u.pre)))
    BY <1>4, <1>5 DEF V!Less
  <2>. QED  BY <2>2
<1>. QED  BY <1>4, <1>6, <1>7

-----------------------------------------------------------------------------
(* The invariants.                                                         *)

Places == {"open", "client", "login", "version", "pull"}

\* Where a load has a host, the Secret it read has decided its login there.
SecretInv(p) ==
  /\ pc[p] \in {"get_repo", "get_auth"} => secret[p] = Nil
  /\ pc[p] \in {"get_auth"} \cup Places =>
       Host(p) \in Hosts /\ repo[p].secretRef \in SecretNames \cup {Nil}
  /\ pc[p] \in Places /\ secret[p] # Nil => Decided(secret[p], Host(p), login[p])

\* The version is the one that was asked for, or was once right.
AsAsked(p, v) ==
  IF V!UsesDigest(Req(p)) THEN v = Req(p).digest
  ELSE IF V!UsesSemver(Req(p)) THEN v = Req(p).tag
  ELSE v \in highs[p]

\* Until the listing, what is right now is among what was once right; the version
\* that was chosen, and the chart that was loaded, are as asked.
ChoiceInv(p) ==
  /\ pc[p] \in {"get_auth", "open", "client", "login", "version"} =>
       Wanted(published[Host(p)], Req(p)) \subseteq highs[p]
  /\ pc[p] = "pull" => AsAsked(p, cv[p])
  /\ result[p] # Nil => AsAsked(p, result[p]) /\ pc[p] \in {"return", "done", "crashed"}

InputInv == EnvInv /\ \A p \in Loads : SecretInv(p) /\ ChoiceInv(p)

LEMMA InputInvInit == Init => InputInv
<1>. SUFFICES ASSUME Init PROVE InputInv
  OBVIOUS
<1>1. EnvInv
  BY WorldAssumption DEF Init, EnvInv, Steps
<1>2. ASSUME NEW p \in Loads PROVE SecretInv(p) /\ ChoiceInv(p)
  BY <1>2 DEF Init, SecretInv, ChoiceInv, Places
<1>. QED  BY <1>1, <1>2 DEF InputInv

\* A step of another load, or of this one that keeps its copies, its choice and what
\* was right so far, keeps the invariants.
LEMMA InputsKept ==
  ASSUME InputInv, NEW p \in Loads, ref' = ref, published' = published,
         UNCHANGED <<repo[p], secret[p], login[p], cv[p], result[p], highs[p]>>,
         \/ pc'[p] = pc[p]
         \/ pc'[p] \in {"return", "done", "crashed"}
         \/ pc[p] \in Places /\ pc'[p] \in Places \ {"pull"} /\ pc[p] # "pull"
  PROVE  SecretInv(p)' /\ ChoiceInv(p)'
  BY DEF InputInv, SecretInv, ChoiceInv, AsAsked, Places, Host, Req

LEMMA InputInvNext == InputInv /\ [Next]_vars => InputInv'
<1>. SUFFICES ASSUME InputInv, [Next]_vars PROVE InputInv'
  OBVIOUS
<1>. USE DEF env, stores, Goto, Fail
<1>1. EnvInv'
  <2>1. ASSUME NEW p \in Loads, LocalStep(p) \/ RegistryAnswer(p) \/ Crash(p) PROVE EnvInv'
    <3>. USE DEF InputInv, EnvInv, Steps
    <3>1. CASE GetHelmRepository(p)
      BY <3>1 DEF GetHelmRepository
    <3>2. CASE UseSecret(p) \/ UseProvider(p) \/ UseNoLogin(p)
      BY <3>2 DEF UseSecret, UseProvider, UseNoLogin, TakeLogin
    <3>3. CASE OpenCredentialsFile(p) \/ NewRegistryClient(p) \/ Login(p) \/ SkipLogin(p)
      BY <3>3 DEF OpenCredentialsFile, NewRegistryClient, Login, SkipLogin
    <3>4. CASE UseGivenVersion(p) \/ ListTags(p) \/ DownloadChart(p)
      BY <3>4 DEF UseGivenVersion, ListTags, DownloadChart
    <3>5. CASE Logout(p) \/ RemoveCredentialsFile(p) \/ Return(p) \/ Crash(p)
      BY <3>5 DEF Logout, RemoveCredentialsFile, NextDeferred, Return, Crash
    <3>. QED  BY <2>1, <3>1, <3>2, <3>3, <3>4, <3>5 DEF LocalStep, RegistryAnswer
  <2>2. CASE EditRepository \/ EditSecret \/ EditRegistry
    <3>. USE DEF InputInv, EnvInv, Edit
    <3>1. CASE EditRepository
      BY <3>1 DEF EditRepository
    <3>2. CASE EditSecret
      BY <3>2 DEF EditSecret
    <3>3. CASE EditRegistry
      <4>1. published' \in [Hosts -> SUBSET Tags] /\ DOMAIN highs' = Loads
        BY <3>3 DEF EditRegistry
      <4>2. UNCHANGED <<cluster, secrets, ref, pc, repo, secret, login, cv, result>>
        BY <3>3 DEF EditRegistry
      <4>. QED  BY <4>1, <4>2
    <3>. QED  BY <2>2, <3>1, <3>2, <3>3
  <2>3. CASE UNCHANGED vars
    BY <2>3 DEF InputInv, EnvInv, vars
  <2>. QED  BY <2>1, <2>2, <2>3 DEF Next
<1>2. ASSUME NEW p \in Loads, LocalStep(p) \/ RegistryAnswer(p) \/ Crash(p), NEW q \in Loads
      PROVE  SecretInv(q)' /\ ChoiceInv(q)'
  <2>1. ref' = ref /\ published' = published /\ secrets' = secrets /\ cluster' = cluster
    BY <1>2 DEF LocalStep, RegistryAnswer, GetHelmRepository,
                UseSecret, UseProvider, UseNoLogin, TakeLogin, OpenCredentialsFile,
                NewRegistryClient, Login, SkipLogin, UseGivenVersion, ListTags,
                DownloadChart, Logout, RemoveCredentialsFile, NextDeferred, Return, Crash
  <2>2. CASE q # p
    <3>1. UNCHANGED <<pc[q], repo[q], secret[q], login[q], cv[q], result[q], highs[q]>>
      <4>. USE <2>2 DEF InputInv, EnvInv
      <4>1. CASE GetHelmRepository(p)
        BY <4>1 DEF GetHelmRepository
      <4>2. CASE UseSecret(p) \/ UseProvider(p) \/ UseNoLogin(p)
        BY <4>2 DEF UseSecret, UseProvider, UseNoLogin, TakeLogin
      <4>3. CASE OpenCredentialsFile(p) \/ NewRegistryClient(p) \/ Login(p) \/ SkipLogin(p)
        BY <4>3 DEF OpenCredentialsFile, NewRegistryClient, Login, SkipLogin
      <4>4. CASE UseGivenVersion(p) \/ ListTags(p) \/ DownloadChart(p)
        BY <4>4 DEF UseGivenVersion, ListTags, DownloadChart
      <4>5. CASE Logout(p) \/ RemoveCredentialsFile(p) \/ Return(p) \/ Crash(p)
        BY <4>5 DEF Logout, RemoveCredentialsFile, NextDeferred, Return, Crash
      <4>. QED  BY <1>2, <4>1, <4>2, <4>3, <4>4, <4>5 DEF LocalStep, RegistryAnswer
    <3>. QED  BY <2>1, <3>1, InputsKept
  <2>3. CASE /\ q = p
             /\ \/ OpenCredentialsFile(p) \/ NewRegistryClient(p)
                \/ Login(p) \/ SkipLogin(p)
    <3>1. /\ UNCHANGED <<repo[p], secret[p], login[p], cv[p], result[p], highs[p]>>
          /\ pc[p] \in {"open", "client", "login"}
          /\ pc'[p] \in {"client", "login", "version", "return"}
      BY <2>3 DEF InputInv, EnvInv, OpenCredentialsFile, NewRegistryClient, Login, SkipLogin
    <3>2. \/ pc'[p] = "return"
          \/ pc[p] \in Places /\ pc'[p] \in Places \ {"pull"} /\ pc[p] # "pull"
      BY <3>1 DEF Places
    <3>. QED  BY <2>1, <2>3, <3>1, <3>2, InputsKept
  <2>4. CASE q = p /\ (Logout(p) \/ RemoveCredentialsFile(p) \/ Return(p) \/ Crash(p))
    <3>1. /\ UNCHANGED <<repo[p], secret[p], login[p], cv[p], result[p], highs[p]>>
          /\ pc'[p] = pc[p] \/ pc'[p] \in {"done", "crashed"}
      BY <2>4 DEF InputInv, EnvInv, Logout, RemoveCredentialsFile, NextDeferred, Return, Crash
    <3>. QED  BY <2>1, <2>4, <3>1, InputsKept
  <2>5. CASE q = p /\ GetHelmRepository(p)
    <3>. DEFINE found == cluster[ref[p].repo]
                read == [found EXCEPT !.url = NormalizeURL(found.url)]
    <3>1. /\ pc[p] = "get_repo" /\ secret[p] = Nil /\ result[p] = Nil
          /\ UNCHANGED <<secret, result>>
      BY <2>5 DEF GetHelmRepository, InputInv, SecretInv, ChoiceInv
    <3>2. CASE Fail(p)
      BY <2>5, <3>1, <3>2 DEF InputInv, EnvInv, SecretInv, ChoiceInv, Places
    <3>3. CASE /\ found # Nil /\ ValidDepURL(read.url)
               /\ repo' = [repo EXCEPT ![p] = read]
               /\ highs' = [highs EXCEPT ![p] =
                    IF read.url = Nil THEN {} ELSE Wanted(published[read.url.host], Req(p))]
               /\ Goto(p, "get_auth")
      <4>1. found \in RepoSpecs
        BY <3>3, InputAssumption DEF InputInv, EnvInv
      <4>2. read.url = NormalizeURL(found.url)
        BY <4>1, InputAssumption
      <4>3. /\ read.url # Nil /\ read.url.host \in Hosts
            /\ read.secretRef \in SecretNames \cup {Nil}
        BY <3>3, <4>1, <4>2, ValidRepository
      <4>. HIDE DEF read
      <4>4. /\ pc'[p] = "get_auth" /\ repo'[p] = read
            /\ highs'[p] = Wanted(published[read.url.host], Req(p))
        BY <3>3, <4>3 DEF InputInv, EnvInv
      <4>5. Host(p)' = read.url.host /\ Req(p)' = Req(p)
        BY <2>1, <4>4 DEF Host, Req
      <4>. QED  BY <2>1, <2>5, <3>1, <4>3, <4>4, <4>5 DEF SecretInv, ChoiceInv, Places
    <3>. QED  BY <2>5, <3>2, <3>3 DEF GetHelmRepository
  <2>6. CASE q = p /\ UseSecret(p)
    <3>. DEFINE found == secrets[repo[p].secretRef]
                option == LoginFromSecret(repo[p].url, found)
    <3>0. pc[p] = "get_auth" /\ repo[p].secretRef # Nil /\ UNCHANGED <<repo, cv, result, highs>>
      BY <2>6 DEF UseSecret, TakeLogin
    <3>1. /\ pc[p] = "get_auth" /\ secret[p] = Nil
          /\ repo[p].url.host \in Hosts /\ repo[p].secretRef \in SecretNames
          /\ UNCHANGED <<repo, cv, result, highs>>
      BY <3>0 DEF InputInv, SecretInv, Host
    <3>2. CASE pc'[p] = "return" /\ (secret'[p] = secret[p] \/ secret'[p] = found)
      BY <2>1, <2>6, <3>1, <3>2
         DEF InputInv, EnvInv, SecretInv, ChoiceInv, AsAsked, Places, Req
    <3>3. CASE /\ found # Nil /\ secret' = [secret EXCEPT ![p] = found]
               /\ ~option.err /\ login' = [login EXCEPT ![p] = option.val]
               /\ Goto(p, "open")
      <4>1. found \in SecretSpecs
        BY <3>1, <3>3 DEF InputInv, EnvInv
      <4>2. Decided(found, repo[p].url.host, option.val)
        BY <3>1, <3>3, <4>1, SecretDecides
      <4>. HIDE DEF option, found
      <4>3. pc'[p] = "open" /\ secret'[p] = found /\ login'[p] = option.val
        BY <3>3 DEF InputInv, EnvInv
      <4>. QED
        BY <2>1, <2>6, <3>1, <4>2, <4>3
           DEF InputInv, SecretInv, ChoiceInv, AsAsked, Places, Host, Req
    <3>. QED  BY <2>6, <3>2, <3>3 DEF UseSecret, TakeLogin, InputInv, EnvInv
  <2>7. CASE q = p /\ (UseProvider(p) \/ UseNoLogin(p))
    <3>1. /\ pc[p] = "get_auth" /\ pc'[p] \in {"open", "return"}
          /\ UNCHANGED <<repo, secret, cv, result, highs>>
      BY <2>7 DEF UseProvider, UseNoLogin, TakeLogin, InputInv, EnvInv
    <3>. QED
      BY <2>1, <2>7, <3>1 DEF InputInv, SecretInv, ChoiceInv, AsAsked, Places, Host, Req
  <2>8. CASE q = p /\ UseGivenVersion(p)
    <3>1. /\ pc[p] = "version" /\ pc'[p] = "pull"
          /\ V!UsesDigest(Req(p)) \/ V!UsesSemver(Req(p))
          /\ cv'[p] = IF V!UsesDigest(Req(p)) THEN Req(p).digest ELSE Req(p).tag
          /\ UNCHANGED <<repo, secret, login, result, highs>>
      BY <2>8 DEF UseGivenVersion, InputInv, EnvInv
    <3>2. Host(p)' = Host(p) /\ Req(p)' = Req(p)
      BY <2>1, <3>1 DEF Host, Req
    <3>4. AsAsked(p, cv[p])'
      BY <3>1, <3>2 DEF AsAsked
    <3>3. result[p] = Nil
      BY <3>1 DEF InputInv, ChoiceInv
    <3>. QED
      BY <2>1, <2>8, <3>1, <3>2, <3>3, <3>4 DEF InputInv, SecretInv, ChoiceInv, Places
  <2>9. CASE q = p /\ ListTags(p)
    <3>1. /\ pc[p] = "version"
          /\ ~V!UsesDigest(Req(p)) /\ ~V!UsesSemver(Req(p))
          /\ UNCHANGED <<repo, secret, login, result, highs>>
      BY <2>9 DEF ListTags
    <3>2. CASE Fail(p)
      BY <2>1, <2>9, <3>1, <3>2
         DEF InputInv, EnvInv, SecretInv, ChoiceInv, AsAsked, Places, Host, Req
    <3>3. ASSUME NEW tag \in V!LastMatchingVersionOrConstraint(
                               V!ListedTags(published[Host(p)]), Req(p)),
                 cv' = [cv EXCEPT ![p] = tag], Goto(p, "pull")
          PROVE  SecretInv(q)' /\ ChoiceInv(q)'
      <4>1. published[Host(p)] \in SUBSET Tags
        BY <3>1 DEF InputInv, EnvInv, SecretInv, Places
      <4>2. \/ Req(p).range = Nil
            \/ Req(p).range.lo \in Nat /\ Req(p).range.hi \in Nat
        BY InputAssumption DEF InputInv, EnvInv, Req
      <4>3. tag \in highs[p]
        BY <3>1, <4>1, <4>2, ListedIsWanted DEF InputInv, ChoiceInv
      <4>4. pc'[p] = "pull" /\ cv'[p] = tag
        BY <3>3 DEF InputInv, EnvInv
      <4>. QED
        BY <2>1, <2>9, <3>1, <4>3, <4>4
           DEF InputInv, SecretInv, ChoiceInv, AsAsked, Places, Host, Req
    <3>. QED  BY <2>9, <3>2, <3>3 DEF ListTags
  <2>10. CASE q = p /\ DownloadChart(p)
    <3>1. /\ pc[p] = "pull" /\ pc'[p] = "return" /\ result'[p] \in {result[p], cv[p]}
          /\ UNCHANGED <<repo, secret, login, cv, highs>>
      BY <2>10 DEF DownloadChart, InputInv, EnvInv
    <3>. QED
      BY <2>1, <2>10, <3>1 DEF InputInv, SecretInv, ChoiceInv, AsAsked, Places, Host, Req
  <2>. QED
    BY <1>2, <2>2, <2>3, <2>4, <2>5, <2>6, <2>7, <2>8, <2>9, <2>10
       DEF LocalStep, RegistryAnswer
<1>3. ASSUME EditRepository \/ EditSecret, NEW q \in Loads
      PROVE  SecretInv(q)' /\ ChoiceInv(q)'
  BY <1>3, InputsKept DEF EditRepository, EditSecret, Edit
<1>4. ASSUME EditRegistry, NEW q \in Loads PROVE SecretInv(q)' /\ ChoiceInv(q)'
  <2>1. UNCHANGED <<ref, pc, repo, secret, login, cv, result>>
    BY <1>4 DEF EditRegistry, Edit
  <2>2. PICK h \in Hosts, now \in SUBSET Tags :
          /\ published' = [published EXCEPT ![h] = now]
          /\ highs'[q] = IF Reading(q, h) THEN highs[q] \cup Wanted(now, Req(q)) ELSE highs[q]
    <3>1. PICK h \in Hosts, t \in Tags :
            LET now == IF t \in published[h] THEN published[h] \ {t} ELSE published[h] \cup {t}
            IN  /\ published' = [published EXCEPT ![h] = now]
                /\ highs' = [p \in Loads |->
                     IF Reading(p, h) THEN highs[p] \cup Wanted(now, Req(p)) ELSE highs[p]]
      BY <1>4 DEF EditRegistry
    <3>. DEFINE now == IF t \in published[h] THEN published[h] \ {t} ELSE published[h] \cup {t}
    <3>2. now \in SUBSET Tags
      BY DEF InputInv, EnvInv
    <3>. QED  BY <1>4, <3>1, <3>2
  <2>3. SecretInv(q)'
    BY <2>1 DEF InputInv, SecretInv, Host
  <2>4. highs[q] \subseteq highs'[q]
    BY <2>2
  <2>5. ASSUME pc[q] \in {"get_auth", "open", "client", "login", "version"}
        PROVE  Wanted(published[Host(q)], Req(q))' \subseteq highs'[q]
    <3>1. Wanted(published[Host(q)], Req(q)) \subseteq highs[q]
      BY <2>5 DEF InputInv, ChoiceInv
    <3>2. Host(q) \in Hosts /\ Host(q)' = Host(q) /\ Req(q)' = Req(q)
      BY <2>1, <2>5 DEF InputInv, SecretInv, Places, Host, Req
    <3>3. Wanted(published[Host(q)], Req(q))' = Wanted(published'[Host(q)], Req(q))
      BY <3>2 DEF Wanted
    <3>4. CASE Host(q) = h
      <4>1. published'[Host(q)] = now
        BY <2>2, <3>4 DEF InputInv, EnvInv
      <4>. QED  BY <2>2, <2>5, <3>3, <3>4, <4>1 DEF Reading
    <3>5. CASE Host(q) # h
      <4>1. published'[Host(q)] = published[Host(q)]
        BY <2>2, <3>2, <3>5 DEF InputInv, EnvInv
      <4>. QED  BY <2>4, <3>1, <3>3, <4>1
    <3>. QED  BY <3>4, <3>5
  <2>6. \A v : AsAsked(q, v) => AsAsked(q, v)'
    BY <2>1, <2>4 DEF AsAsked, Req
  <2>. QED  BY <2>1, <2>3, <2>5, <2>6 DEF InputInv, ChoiceInv
<1>5. ASSUME UNCHANGED vars, NEW q \in Loads PROVE SecretInv(q)' /\ ChoiceInv(q)'
  BY <1>5, InputsKept DEF vars
<1>. QED  BY <1>1, <1>2, <1>3, <1>4, <1>5 DEF InputInv, Next

-----------------------------------------------------------------------------
(* The theorems.                                                           *)

\* A load that read a Secret logs in with what the Secret holds for its host, or
\* not at all if that is nobody; it never falls back to no login, for any Secrets,
\* hosts and edits (SecretDecidesLogin).
THEOREM SecretIsDecisive == Spec => []SecretDecidesLogin
<1>1. InputInv => SecretDecidesLogin
  <2>. SUFFICES ASSUME InputInv, NEW p \in Loads,
                       pc[p] \notin {"get_repo", "get_auth", "return", "done", "crashed"},
                       secret[p] # Nil
                PROVE  Decided(secret[p], Host(p), login[p])
    BY DEF SecretDecidesLogin, Decided, Held
  <2>1. pc[p] \in Places
    BY DEF InputInv, EnvInv, Steps, Places
  <2>. QED  BY <2>1 DEF InputInv, SecretInv
<1>. QED  BY <1>1, InputInvInit, InputInvNext, PTL DEF Spec

\* A chart that was loaded is the digest or the version that was asked for, or was
\* the highest match of its range at some time before the listing, whatever was
\* pushed, deleted or edited meanwhile (LoadedIsRequested).
THEOREM LoadedIsAsked == Spec => []LoadedIsRequested
<1>1. InputInv => LoadedIsRequested
  BY DEF InputInv, ChoiceInv, AsAsked, LoadedIsRequested
<1>. QED  BY <1>1, InputInvInit, InputInvNext, PTL DEF Spec

-----------------------------------------------------------------------------
(* With a native credential helper, which keeps one login for each host, a *)
(* load presents its own login as long as no other load is on its host.    *)

\* From the login to the last deferred call a load relies on the helper's entry for
\* its host, or may change it.
Busy(p) == pc[p] \in {"login", "version", "pull"} \/ (pc[p] = "return" /\ defers[p] # <<>>)

HostsApart == \A p, q \in Loads : p # q /\ Busy(p) /\ Busy(q) => Host(p) # Host(q)

\* What a load presented is its login, and the helper holds that as long as it is used.
HelperInv(p) ==
  /\ pc[p] \in {"get_repo", "get_auth"} => login[p] = Nil
  /\ login[p] # Nil => login[p] # Nobody /\ shown[p] \subseteq {login[p]}
  /\ pc[p] \in {"get_repo", "get_auth", "open", "client", "login"} => shown[p] = {}
  /\ pc[p] \in {"version", "pull"} /\ login[p] # Nil => native[Host(p)] = login[p]

InvHelper == Inv /\ InputInv /\ \A p \in Loads : HelperInv(p)

\* The locals that HelperInv reads.
helperLocals(q) == <<pc[q], repo[q], login[q], shown[q]>>

LEMMA HelperKept ==
  ASSUME NEW q \in Loads, HelperInv(q), UNCHANGED helperLocals(q),
         pc[q] \in {"version", "pull"} => native'[Host(q)] = native[Host(q)]
  PROVE  HelperInv(q)'
  BY DEF HelperInv, helperLocals, Host

\* The hosts that loads work on are hosts of the machine's stores.
LEMMA WorksOnHost ==
  ASSUME InvHelper, NEW p \in Loads, pc[p] \in Places
  PROVE  Host(p) \in Hosts /\ Host(p) \in DOMAIN native
  BY DEF InvHelper, Inv, TypeOK, InputInv, SecretInv

\* A load that changes the helper leaves the entries of the others' hosts.
LEMMA OthersKept ==
  ASSUME InvHelper, HostsApart, NEW p \in Loads, NEW q \in Loads, q # p, Busy(p),
         NEW entry, native' \in {native, [native EXCEPT ![Host(p)] = entry]},
         pc[q] \in {"version", "pull"}
  PROVE  native'[Host(q)] = native[Host(q)]
<1>1. Host(q) # Host(p) /\ Host(q) \in DOMAIN native
  BY WorksOnHost DEF HostsApart, Busy, Places
<1>. QED  BY <1>1

LEMMA InvHelperInit == Init => InvHelper
  BY InvInit, InputInvInit DEF Init, InvHelper, HelperInv

LEMMA InvHelperNext == NativeHelper /\ HostsApart /\ InvHelper /\ [Next]_vars => InvHelper'
<1>. SUFFICES ASSUME NativeHelper, HostsApart, InvHelper, [Next]_vars, NEW q \in Loads
              PROVE  HelperInv(q)'
  BY InvNext, InputInvNext DEF InvHelper
<1>0. HelperInv(q) /\ TypeOK
  BY DEF InvHelper, Inv
<1>. USE DEF Goto, Fail
<1>1. ASSUME NEW p \in Loads, LocalStep(p) \/ RegistryAnswer(p) \/ Crash(p),
             ~Login(p), ~Logout(p), q # p
      PROVE  HelperInv(q)'
  <2>1. UNCHANGED <<helperLocals(q), native>>
    BY <1>0, <1>1 DEF LocalStep, RegistryAnswer, TypeOK, helperLocals, stores, TakeLogin,
         GetHelmRepository, UseSecret, UseProvider, UseNoLogin, OpenCredentialsFile,
         NewRegistryClient, SkipLogin, UseGivenVersion, ListTags, DownloadChart,
         RemoveCredentialsFile, NextDeferred, Return, Crash
  <2>. QED  BY <1>0, <2>1, HelperKept
<1>2. ASSUME NEW p \in Loads, Login(p) \/ Logout(p), q # p PROVE HelperInv(q)'
  <2>1. Busy(p)
    BY <1>2 DEF Busy, Login, Logout, NextDeferred
  <2>2. UNCHANGED helperLocals(q)
    BY <1>0, <1>2 DEF TypeOK, helperLocals, Login, Logout, NextDeferred
  <2>3. \E entry : native' \in {native, [native EXCEPT ![Host(p)] = entry]}
    BY <1>2 DEF Login, Logout, StoreLogin, EraseLogin, stores
  <2>. QED  BY <1>0, <1>2, <2>1, <2>2, <2>3, OthersKept, HelperKept
<1>3. ASSUME GetHelmRepository(q) PROVE HelperInv(q)'
  BY <1>0, <1>3 DEF GetHelmRepository, HelperInv, TypeOK
<1>4. ASSUME UseSecret(q) PROVE HelperInv(q)'
  BY <1>0, <1>4, LoginOfSecret DEF UseSecret, TakeLogin, HelperInv, TypeOK
<1>5. ASSUME UseProvider(q) PROVE HelperInv(q)'
  BY <1>0, <1>5, MadeLogin DEF UseProvider, TakeLogin, HelperInv, TypeOK
<1>6. ASSUME UseNoLogin(q) PROVE HelperInv(q)'
  BY <1>0, <1>6, MadeLogin DEF UseNoLogin, TakeLogin, HelperInv, TypeOK
<1>7. ASSUME OpenCredentialsFile(q) \/ NewRegistryClient(q) \/ SkipLogin(q)
      PROVE  HelperInv(q)'
  BY <1>0, <1>7 DEF OpenCredentialsFile, NewRegistryClient, SkipLogin, HelperInv, TypeOK
<1>8. ASSUME Login(q) PROVE HelperInv(q)'
  <2>1. CASE pc' = [pc EXCEPT ![q] = "return"]
    BY <1>0, <1>8, <2>1 DEF Login, HelperInv, TypeOK
  <2>2. CASE Goto(q, "version") /\ StoreLogin(q, TRUE)
    <3>1. native' = [native EXCEPT ![Host(q)] = login[q]] /\ Host(q) \in DOMAIN native
      BY <1>8, <2>2, WorksOnHost DEF StoreLogin, Login, Places
    <3>2. Host(q)' = Host(q)
      BY <1>8 DEF Login, Host
    <3>. QED  BY <1>0, <1>8, <2>2, <3>1, <3>2 DEF Login, HelperInv, TypeOK
  <2>. QED  BY <1>8, <2>1, <2>2 DEF Login
<1>9. ASSUME ListTags(q) \/ DownloadChart(q) PROVE HelperInv(q)'
  <2>1. login[q] # Nil => Presented(q) = login[q]
    BY <1>0, <1>9 DEF ListTags, DownloadChart, Presented, OwnLogin, HelperInv
  <2>2. /\ shown' = [shown EXCEPT ![q] = @ \cup {Presented(q)}]
        /\ pc[q] \in {"version", "pull"}
        /\ pc' \in {[pc EXCEPT ![q] = "pull"], [pc EXCEPT ![q] = "return"]}
        /\ UNCHANGED <<login, native, repo>>
    BY <1>9 DEF ListTags, DownloadChart, stores
  <2>. QED  BY <1>0, <2>1, <2>2 DEF HelperInv, TypeOK, Host
<1>10. ASSUME UseGivenVersion(q) PROVE HelperInv(q)'
  BY <1>0, <1>10 DEF UseGivenVersion, HelperInv, TypeOK, Host, stores
<1>11. ASSUME Logout(q) \/ RemoveCredentialsFile(q) \/ Return(q) \/ Crash(q)
       PROVE  HelperInv(q)'
  BY <1>0, <1>11
     DEF Logout, RemoveCredentialsFile, NextDeferred, Return, Crash, HelperInv, TypeOK
<1>12. CASE EditRepository \/ EditSecret \/ EditRegistry \/ UNCHANGED vars
  BY <1>0, <1>12, HelperKept
     DEF EditRepository, EditSecret, EditRegistry, Edit, vars, stores, helperLocals
<1>. QED
  BY <1>1, <1>2, <1>3, <1>4, <1>5, <1>6, <1>7, <1>8, <1>9, <1>10, <1>11, <1>12
     DEF Next, LocalStep, RegistryAnswer

\* With a helper installed, too, a load that logged in presents that login and no
\* other, as long as no two loads are at work on one host at a time; edits, crashes
\* and loads that come one after another do no harm (PullUsesOwnLogin).
THEOREM OwnLoginWithHelper ==
  NativeHelper /\ Spec /\ []HostsApart => []PullUsesOwnLogin
<1>1. InvHelper => PullUsesOwnLogin
  BY DEF InvHelper, HelperInv, PullUsesOwnLogin
<1>2. ASSUME NativeHelper PROVE Spec /\ []HostsApart => []PullUsesOwnLogin
  <2>1. InvHelper /\ HostsApart /\ [Next]_vars => InvHelper'
    BY <1>2, InvHelperNext
  <2>. QED  BY <1>1, <2>1, InvHelperInit, PTL DEF Spec
<1>. QED  BY <1>2
=============================================================================
