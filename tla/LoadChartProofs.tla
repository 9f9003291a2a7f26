--------------------------- MODULE LoadChartProofs ---------------------------
(***************************************************************************)
(* Theorems about LoadChart, for any number of loads, hosts, repositories  *)
(* and Secrets, and for every sequence of edits.                           *)
(***************************************************************************)
EXTENDS LoadChart, SequenceTheorems, TLAPS

\* Where a load's temporary file, its deferred calls and its login stand.
FileInv(p) ==
  /\ pc[p] \in {"get_repo", "get_auth", "open"} => disk[p] = "absent"
  /\ pc[p] \in {"get_repo", "get_auth", "open", "client"} => defers[p] = <<>>
  /\ pc[p] \in {"client", "login", "version", "pull"} =>
       (file[p] = "temp" <=> login[p] # Nil)
  /\ pc[p] = "login" /\ login[p] # Nil => defers[p] = <<"remove">>
  /\ disk[p] # "absent" =>
       p \in stuck \/ pc[p] \in {"client", "crashed"} \/ defers[p] # <<>>
  /\ pc[p] = "done" => defers[p] = <<>>
  /\ disk[p] # "absent" \/ mem[p] # Nil => file[p] = "temp"
  /\ pc[p] \in {"get_repo", "get_auth", "open"} => mem[p] = Nil

Inv == TypeOK /\ \A p \in Loads : FileInv(p)

\* A deferred call registered before another one.
LEMMA PairIsConcat ==
  ASSUME NEW S, NEW a \in S, NEW b \in S
  PROVE  <<a>> \o <<b>> = <<a, b>>
<1>. DEFINE s == <<a>> \o <<b>>
            t == <<a, b>>
<1>1. <<a>> \in Seq(S) /\ <<b>> \in Seq(S) /\ t \in Seq(S)
  OBVIOUS
<1>2. /\ s \in Seq(S) /\ Len(s) = 2
      /\ s[1] = a /\ s[2] = b
  <2>1. s \in Seq(S) /\ Len(s) = 2
    BY <1>1, ConcatProperties
  <2>2. s[1] = a /\ s[2] = b
    BY <1>1, ConcatProperties
  <2>. QED  BY <2>1, <2>2
<1>3. Len(t) = 2 /\ t[1] = a /\ t[2] = b
  OBVIOUS
<1>4. \A i \in 1 .. Len(s) : s[i] = t[i]
  <2>. HIDE DEF s, t
  <2>1. \A i \in 1 .. 2 : i = 1 \/ i = 2
    OBVIOUS
  <2>. QED  BY <2>1, <1>2, <1>3
<1>. HIDE DEF s, t
<1>5. s = t
  BY <1>1, <1>2, <1>3, <1>4, SeqEqual
<1>. QED  BY <1>5 DEF s, t

\* The deferred calls that are left after the first one.
LEMMA Deferred ==
  ASSUME NEW d \in {<<>>, <<"remove">>, <<"logout", "remove">>}, d # <<>>
  PROVE  /\ Head(d) = "logout" => Tail(d) = <<"remove">>
         /\ Head(d) = "remove" => Tail(d) = <<>>
<1>1. CASE d = <<"remove">>
  <2>1. Head(<<"remove">>) = "remove" /\ Tail(<<"remove">>) = <<>>
    OBVIOUS
  <2>. QED  BY <1>1, <2>1
<1>2. CASE d = <<"logout", "remove">>
  <2>1. Head(<<"logout", "remove">>) = "logout" /\ Tail(<<"logout", "remove">>) = <<"remove">>
    OBVIOUS
  <2>. QED  BY <1>2, <2>1
<1>. QED  BY <1>1, <1>2

LEMMA InvInit == Init => Inv
  BY WorldAssumption DEF Init, Inv, TypeOK, FileInv, Steps

LEMMA InvNext == Inv /\ [Next]_vars => Inv'
<1>. SUFFICES ASSUME Inv, [Next]_vars PROVE Inv'
  OBVIOUS
<1>. USE DEF Inv, TypeOK, FileInv, Steps, env, stores, Goto, Fail
<1>1. ASSUME NEW p \in Loads, GetHelmRepository(p) PROVE Inv'
  BY <1>1 DEF GetHelmRepository
<1>2. ASSUME NEW p \in Loads, UseSecret(p) PROVE Inv'
  BY <1>2 DEF UseSecret, TakeLogin
<1>3. ASSUME NEW p \in Loads, UseProvider(p) PROVE Inv'
  BY <1>3 DEF UseProvider, TakeLogin
<1>4. ASSUME NEW p \in Loads, UseNoLogin(p) PROVE Inv'
  BY <1>4 DEF UseNoLogin, TakeLogin
<1>5. ASSUME NEW p \in Loads, OpenCredentialsFile(p) PROVE Inv'
  <2>1. CASE login[p] = Nil
    BY <1>5, <2>1 DEF OpenCredentialsFile
  <2>2. CASE login[p] # Nil
    <3>1. TypeOK'
      BY <1>5, <2>2 DEF OpenCredentialsFile
    <3>2. ASSUME NEW q \in Loads PROVE FileInv(q)'
      <4>1. CASE q = p
        BY <4>1, <1>5, <2>2 DEF OpenCredentialsFile
      <4>2. CASE q # p
        BY <4>2, <1>5, <2>2 DEF OpenCredentialsFile
      <4>. QED  BY <4>1, <4>2
    <3>. QED  BY <3>1, <3>2
  <2>. QED  BY <2>1, <2>2
<1>6. ASSUME NEW p \in Loads, NewRegistryClient(p) PROVE Inv'
  <2>1. CASE file[p] = "temp"
    <3>1. CASE Fail(p) /\ RemoveFile(p) /\ UNCHANGED defers
      BY <1>6, <2>1, <3>1 DEF NewRegistryClient, RemoveFile
    <3>2. CASE /\ pc' = [pc EXCEPT ![p] = "login"] \/ Fail(p)
               /\ defers' = [defers EXCEPT ![p] = <<"remove">>]
               /\ UNCHANGED <<disk, stuck>>
      BY <1>6, <2>1, <3>2 DEF NewRegistryClient
    <3>. QED  BY <1>6, <2>1, <3>1, <3>2 DEF NewRegistryClient
  <2>2. CASE file[p] # "temp"
    BY <1>6, <2>2 DEF NewRegistryClient
  <2>. QED  BY <2>1, <2>2
<1>7. ASSUME NEW p \in Loads, Login(p) PROVE Inv'
  <2>1. file[p] = "temp" /\ defers[p] = <<"remove">>
    BY <1>7 DEF Login
  <2>2. CASE Fail(p) /\ UNCHANGED <<stores, defers>>
    BY <1>7, <2>2 DEF Login
  <2>3. CASE Fail(p) /\ StoreLogin(p, FALSE) /\ UNCHANGED defers
    <3>1. TypeOK'
      BY <1>7, <2>1, <2>3 DEF Login, StoreLogin
    <3>2. ASSUME NEW q \in Loads PROVE FileInv(q)'
      <4>1. CASE q = p
        BY <4>1, <1>7, <2>1, <2>3 DEF Login, StoreLogin
      <4>2. CASE q # p
        BY <4>2, <1>7, <2>1, <2>3 DEF Login, StoreLogin
      <4>. QED  BY <4>1, <4>2
    <3>. QED  BY <3>1, <3>2
  <2>4. CASE /\ Goto(p, "version") /\ StoreLogin(p, TRUE)
             /\ defers' = [defers EXCEPT ![p] = <<"logout">> \o @]
    <3>1. defers' = [defers EXCEPT ![p] = <<"logout", "remove">>]
      <4>1. <<"logout">> \o <<"remove">> = <<"logout", "remove">>
        <5>. DEFINE S == {"logout", "remove"}
        <5>1. "logout" \in S /\ "remove" \in S
          OBVIOUS
        <5>. HIDE DEF S
        <5>. QED  BY <5>1, PairIsConcat
      <4>. QED  BY <2>1, <2>4, <4>1
    <3>2. /\ pc[p] = "login" /\ login[p] # Nil
          /\ pc' = [pc EXCEPT ![p] = "version"]
          /\ disk' = [disk EXCEPT ![p] = "login"]
          /\ DOMAIN mem' = Loads /\ DOMAIN native' = Hosts
          /\ \A q \in Loads \ {p} : mem'[q] = mem[q]
          /\ UNCHANGED <<machine, file, login, stuck, edits, published, repo, shown>>
      BY <1>7, <2>1, <2>4 DEF Login, StoreLogin, SaveFile
    <3>3. TypeOK'
      BY <3>1, <3>2
    <3>4. ASSUME NEW q \in Loads PROVE FileInv(q)'
      BY <2>1, <3>1, <3>2
    <3>. QED  BY <3>3, <3>4
  <2>. QED  BY <1>7, <2>2, <2>3, <2>4 DEF Login
<1>8. ASSUME NEW p \in Loads, SkipLogin(p) PROVE Inv'
  BY <1>8 DEF SkipLogin
<1>9. ASSUME NEW p \in Loads, UseGivenVersion(p) PROVE Inv'
  BY <1>9 DEF UseGivenVersion
<1>10. ASSUME NEW p \in Loads, ListTags(p) PROVE Inv'
  BY <1>10 DEF ListTags
<1>11. ASSUME NEW p \in Loads, DownloadChart(p) PROVE Inv'
  BY <1>11 DEF DownloadChart
<1>12. ASSUME NEW p \in Loads, Logout(p) PROVE Inv'
  <2>1. defers' = [defers EXCEPT ![p] = <<"remove">>]
    BY <1>12, Deferred DEF Logout, NextDeferred
  <2>2. CASE UNCHANGED stores
    <3>1. /\ pc[p] = "return"
          /\ UNCHANGED <<edits, published, pc, file, login, stuck, repo, shown>>
      BY <1>12 DEF Logout, NextDeferred
    <3>2. TypeOK'
      BY <2>1, <2>2, <3>1
    <3>3. ASSUME NEW q \in Loads PROVE FileInv(q)'
      BY <2>1, <2>2, <3>1
    <3>. QED  BY <3>2, <3>3
  <2>3. ASSUME mem[p] # Nil, NEW saved \in BOOLEAN, EraseLogin(p, saved) PROVE Inv'
    <3>1. file[p] = "temp"
      BY <2>3
    <3>2. /\ disk' \in {disk, [disk EXCEPT ![p] = "empty"]}
          /\ mem' = [mem EXCEPT ![p] = Nil]
          /\ DOMAIN native' = Hosts
          /\ UNCHANGED machine
      BY <2>3, <3>1 DEF EraseLogin, SaveFile
    <3>3. /\ pc[p] = "return"
          /\ UNCHANGED <<edits, published, pc, file, login, stuck, repo, shown>>
      BY <1>12 DEF Logout, NextDeferred
    <3>4. TypeOK'
      BY <2>1, <3>2, <3>3
    <3>5. ASSUME NEW q \in Loads PROVE FileInv(q)'
      BY <2>1, <3>1, <3>2, <3>3
    <3>. QED  BY <3>4, <3>5
  <2>. QED  BY <1>12, <2>2, <2>3 DEF Logout
<1>13. ASSUME NEW p \in Loads, RemoveCredentialsFile(p) PROVE Inv'
  BY <1>13, Deferred DEF RemoveCredentialsFile, NextDeferred, RemoveFile
<1>14. ASSUME NEW p \in Loads, Return(p) PROVE Inv'
  BY <1>14 DEF Return
<1>15. ASSUME NEW p \in Loads, Crash(p) PROVE Inv'
  BY <1>15 DEF Crash
<1>16. CASE EditRepository
  BY <1>16, WorldAssumption DEF EditRepository, Edit
<1>17. CASE EditSecret
  BY <1>17, WorldAssumption DEF EditSecret, Edit
<1>18. CASE EditRegistry
  BY <1>18, WorldAssumption DEF EditRegistry, Edit
<1>19. CASE UNCHANGED vars
  BY <1>19 DEF vars
<1>. QED
  BY <1>1, <1>2, <1>3, <1>4, <1>5, <1>6, <1>7, <1>8, <1>9, <1>10, <1>11, <1>12, <1>13, <1>14, <1>15, <1>16, <1>17, <1>18, <1>19 DEF Next, LocalStep, RegistryAnswer

\* Type correctness, and with it that no load ever has a Logout deferred without
\* the removal of its credentials file behind it.
THEOREM TypeCorrect == Spec => []TypeOK
<1>1. Inv => TypeOK
  BY DEF Inv
<1>. QED  BY <1>1, InvInit, InvNext, PTL DEF Spec

\* No load that has returned left its credentials file, for any number of loads
\* and whatever failed, crashed or changed on the way (NothingLeftBehind).
THEOREM FileIsDeleted == Spec => []NothingLeftBehind
<1>1. Inv => NothingLeftBehind
  BY DEF Inv, FileInv, NothingLeftBehind, TypeOK
<1>. QED  BY <1>1, InvInit, InvNext, PTL DEF Spec

-----------------------------------------------------------------------------
(* Without a native credential helper the machine's own stores are safe.   *)

LEMMA StoresKeptNext ==
  ASSUME ~NativeHelper, Inv, [Next]_vars PROVE UNCHANGED <<machine, native>>
<1>1. ASSUME NEW p \in Loads, Login(p) PROVE UNCHANGED <<machine, native>>
  <2>1. file[p] = "temp"
    BY <1>1 DEF Inv, FileInv, Login
  <2>. QED  BY <1>1, <2>1 DEF Login, StoreLogin, SaveFile, stores
<1>2. ASSUME NEW p \in Loads, Logout(p) PROVE UNCHANGED <<machine, native>>
  <2>1. mem[p] # Nil => file[p] = "temp"
    BY DEF Inv, FileInv
  <2>. QED  BY <1>2, <2>1 DEF Logout, EraseLogin, SaveFile, stores
<1>3. ASSUME NEW p \in Loads, LocalStep(p) \/ RegistryAnswer(p) \/ Crash(p),
             ~Login(p), ~Logout(p)
      PROVE  UNCHANGED <<machine, native>>
  BY <1>3 DEF LocalStep, RegistryAnswer, stores, GetHelmRepository, UseSecret,
              UseProvider, UseNoLogin, OpenCredentialsFile, NewRegistryClient,
              SkipLogin, UseGivenVersion, ListTags, DownloadChart,
              RemoveCredentialsFile, Return, Crash
<1>4. CASE EditRepository \/ EditSecret \/ EditRegistry
  BY <1>4 DEF EditRepository, EditSecret, EditRegistry, Edit, stores
<1>5. CASE UNCHANGED vars
  BY <1>5 DEF vars
<1>. QED  BY <1>1, <1>2, <1>3, <1>4, <1>5 DEF Next

\* No load ever changes the machine's logins, when no native helper is installed
\* (MachineLoginsKept; with a helper it does not hold).
THEOREM MachineIsKept == ~NativeHelper /\ Spec => MachineLoginsKept
<1>1. ~NativeHelper /\ Inv /\ [Next]_vars => [UNCHANGED <<machine, native>>]_vars
  BY StoresKeptNext
<1>2. ASSUME ~NativeHelper PROVE Spec => [][UNCHANGED <<machine, native>>]_vars
  <2>1. Inv /\ [Next]_vars => [UNCHANGED <<machine, native>>]_vars
    BY <1>1, <1>2
  <2>. QED  BY <2>1, InvInit, InvNext, PTL DEF Spec
<1>. QED  BY <1>2 DEF MachineLoginsKept

-----------------------------------------------------------------------------
(* Without a native credential helper a load presents its own login.       *)

\* What a load's login option, its stored login and what it presented have to
\* do with one another.
LoginInv(p) ==
  /\ pc[p] \in {"get_repo", "get_auth"} => login[p] = Nil
  /\ login[p] # Nil => login[p] # Nobody /\ shown[p] \subseteq {login[p]}
  /\ pc[p] \in {"get_repo", "get_auth", "open", "client", "login"} => shown[p] = {}
  /\ pc[p] \in {"version", "pull"} /\ login[p] # Nil =>
       mem[p] = login[p] /\ file[p] = "temp"

InvLogin == Inv /\ \A p \in Loads : LoginInv(p)

\* A login option is never a pair of empty strings: such a pair is no option.
LEMMA AdaptedLogin ==
  ASSUME NEW auth, ~AuthAdaptHelper(auth).err
  PROVE  AuthAdaptHelper(auth).val = Nil \/ AuthAdaptHelper(auth).val # Nobody
<1>1. CASE Blank(auth)
  BY <1>1 DEF AuthAdaptHelper, Ok
<1>2. CASE ~Blank(auth) /\ Complete(auth)
  <2>1. AuthAdaptHelper(auth).val = auth
    BY <1>2 DEF AuthAdaptHelper, Ok
  <2>2. auth.username # "" /\ Nobody.username = ""
    BY <1>2 DEF Complete, Nobody, Credential
  <2>. QED  BY <2>1, <2>2
<1>3. CASE ~Blank(auth) /\ ~Complete(auth)
  <2>1. AuthAdaptHelper(auth).err = TRUE
    BY <1>3 DEF AuthAdaptHelper, Failed
  <2>. QED  BY <2>1
<1>. QED  BY <1>1, <1>2, <1>3

LEMMA MadeLogin ==
  ASSUME NEW auth, NEW keychain, NEW url, ~MakeLoginOption(auth, keychain, url).err
  PROVE  LET made == MakeLoginOption(auth, keychain, url).val
         IN  made = Nil \/ made # Nobody
<1>1. CASE auth # Nil
  BY <1>1, AdaptedLogin DEF MakeLoginOption
<1>2. CASE auth = Nil /\ keychain # Nil
  <2>1. ~KeychainAdaptHelper(keychain, url).err
    BY <1>2 DEF MakeLoginOption
  <2>2. KeychainAdaptHelper(keychain, url) = AuthAdaptHelper(Resolve(keychain, url.host))
    BY <2>1 DEF KeychainAdaptHelper, Failed
  <2>. QED  BY <1>2, <2>1, <2>2, AdaptedLogin DEF MakeLoginOption
<1>3. CASE auth = Nil /\ keychain = Nil
  BY <1>3 DEF MakeLoginOption, Ok
<1>. QED  BY <1>1, <1>2, <1>3

LEMMA LoginOfSecret ==
  ASSUME NEW url, NEW held, ~LoginFromSecret(url, held).err
  PROVE  LoginFromSecret(url, held).val = Nil \/ LoginFromSecret(url, held).val # Nobody
<1>1. LoginFromSecret(url, held) =
        MakeLoginOption(Nil, LoginOptionFromSecret(url, held).val, url)
  BY DEF LoginFromSecret, Failed
<1>. QED  BY <1>1, MadeLogin

LEMMA InvLoginInit == Init => InvLogin
  BY InvInit DEF Init, InvLogin, LoginInv

LEMMA InvLoginNext == ~NativeHelper /\ InvLogin /\ [Next]_vars => InvLogin'
<1>. SUFFICES ASSUME ~NativeHelper, InvLogin, [Next]_vars PROVE \A p \in Loads : LoginInv(p)'
  BY InvNext DEF InvLogin
<1>. USE DEF InvLogin, Inv, TypeOK, LoginInv, env, stores, Goto, Fail
<1>1. ASSUME NEW p \in Loads, UseSecret(p) PROVE \A q \in Loads : LoginInv(q)'
  BY <1>1, LoginOfSecret DEF UseSecret, TakeLogin
<1>2. ASSUME NEW p \in Loads, UseProvider(p) PROVE \A q \in Loads : LoginInv(q)'
  BY <1>2, MadeLogin DEF UseProvider, TakeLogin
<1>3. ASSUME NEW p \in Loads, UseNoLogin(p) PROVE \A q \in Loads : LoginInv(q)'
  BY <1>3, MadeLogin DEF UseNoLogin, TakeLogin
<1>4. ASSUME NEW p \in Loads, Login(p) PROVE \A q \in Loads : LoginInv(q)'
  <2>1. file[p] = "temp"
    BY <1>4 DEF Login, FileInv
  <2>2. CASE pc' = [pc EXCEPT ![p] = "return"]
    BY <1>4, <2>2 DEF Login, StoreLogin
  <2>3. CASE Goto(p, "version") /\ StoreLogin(p, TRUE)
    <3>1. mem' = [mem EXCEPT ![p] = login[p]]
      BY <2>3 DEF StoreLogin
    <3>. QED  BY <1>4, <2>1, <2>3, <3>1 DEF Login
  <2>. QED  BY <1>4, <2>2, <2>3 DEF Login
<1>5. ASSUME NEW p \in Loads, ListTags(p) \/ DownloadChart(p)
      PROVE  \A q \in Loads : LoginInv(q)'
  <2>1. login[p] # Nil => Presented(p) = login[p]
    BY <1>5 DEF ListTags, DownloadChart, Presented, OwnLogin
  <2>2. /\ shown' = [shown EXCEPT ![p] = @ \cup {Presented(p)}]
        /\ pc[p] \in {"version", "pull"}
        /\ pc' \in {[pc EXCEPT ![p] = "pull"], [pc EXCEPT ![p] = "return"]}
        /\ UNCHANGED <<login, mem, file>>
    BY <1>5 DEF ListTags, DownloadChart
  <2>. QED  BY <2>1, <2>2
<1>6. ASSUME NEW p \in Loads, Logout(p) PROVE \A q \in Loads : LoginInv(q)'
  BY <1>6 DEF Logout, NextDeferred, EraseLogin
<1>7. ASSUME NEW p \in Loads, Crash(p) PROVE \A q \in Loads : LoginInv(q)'
  BY <1>7 DEF Crash
<1>8. ASSUME NEW p \in Loads, NewRegistryClient(p) PROVE \A q \in Loads : LoginInv(q)'
  BY <1>8 DEF NewRegistryClient
<1>9. ASSUME NEW p \in Loads, GetHelmRepository(p) PROVE \A q \in Loads : LoginInv(q)'
  BY <1>9 DEF GetHelmRepository
<1>10. ASSUME NEW p \in Loads, OpenCredentialsFile(p) PROVE \A q \in Loads : LoginInv(q)'
  BY <1>10 DEF OpenCredentialsFile
<1>11. ASSUME NEW p \in Loads, SkipLogin(p) \/ UseGivenVersion(p)
       PROVE  \A q \in Loads : LoginInv(q)'
  BY <1>11 DEF SkipLogin, UseGivenVersion
<1>12. ASSUME NEW p \in Loads, RemoveCredentialsFile(p) \/ Return(p)
       PROVE  \A q \in Loads : LoginInv(q)'
  BY <1>12 DEF RemoveCredentialsFile, NextDeferred, Return
<1>13. CASE EditRepository \/ EditSecret \/ EditRegistry
  BY <1>13 DEF EditRepository, EditSecret, EditRegistry, Edit
<1>14. CASE UNCHANGED vars
  BY <1>14 DEF vars
<1>. QED
  BY <1>1, <1>2, <1>3, <1>4, <1>5, <1>6, <1>7, <1>8, <1>9, <1>10, <1>11, <1>12,
     <1>13, <1>14 DEF Next, LocalStep, RegistryAnswer

\* A load that logged in presents that login and no other when it lists and
\* pulls, when no native helper is installed (PullUsesOwnLogin; with a helper,
\* that one host's login is all it keeps for any number of loads).
THEOREM OwnLoginIsUsed == ~NativeHelper /\ Spec => []PullUsesOwnLogin
<1>1. InvLogin => PullUsesOwnLogin
  BY DEF InvLogin, LoginInv, PullUsesOwnLogin
<1>2. ASSUME ~NativeHelper PROVE Spec => []PullUsesOwnLogin
  <2>1. InvLogin /\ [Next]_vars => InvLogin'
    BY <1>2, InvLoginNext
  <2>. QED  BY <1>1, <2>1, InvLoginInit, PTL DEF Spec
<1>. QED  BY <1>2
=============================================================================
