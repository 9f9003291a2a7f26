---------------------------- MODULE RegistryAuth ----------------------------
(***************************************************************************)
(* How a HelmRepository's URL, its Secret or its cloud provider become the *)
(* credential that LoadChart logs in with: the URL helpers of              *)
(* internal/helm/repository/utils.go, the Secret readers of                *)
(* internal/helm/getter and internal/helm/registry, and the adapters from  *)
(* a keychain or an authenticator to a login option.                       *)
(*                                                                         *)
(* A URL is a record: its scheme, its host, whether it ends in a slash,    *)
(* whether url.Parse accepts it and whether "oci" occurs after the scheme. *)
(* The scheme "ocix" stands for any text that starts with "oci" but not    *)
(* with "oci://".  A username or a password is "" when it is missing.      *)
(***************************************************************************)

CONSTANT Nil      \* Go's nil: no secret, no keychain, no login option

Ok(v) == [err |-> FALSE, val |-> v]
Failed == [err |-> TRUE, val |-> Nil]

Credential(user, pass) == [username |-> user, password |-> pass]
Credentials == [username : STRING, password : STRING]
Nobody == Credential("", "")
TokenUsername == "<token>"

Complete(c) == c.username # "" /\ c.password # ""
Blank(c) == c.username = "" /\ c.password = ""

-----------------------------------------------------------------------------
(* URLs.                                                                   *)

ContainsOCI(url) == url.scheme \in {"oci", "ocix"} \/ url.ociInside

NormalizeURL(url) ==
  IF url = Nil THEN Nil ELSE [url EXCEPT !.slash = ~ContainsOCI(url)]

ValidDepURL(url) == url # Nil /\ url.scheme \in {"oci", "ocix", "https", "http"}

IsOCI(url) == url.scheme = "oci"

-----------------------------------------------------------------------------
(* Secrets: [type, username, password, tls, config].  tls says which of    *)
(* certFile, keyFile and caFile are there and whether they can be read;    *)
(* config maps the hosts of a docker configuration to their entries, Nil   *)
(* where it has none, and is Nil when the configuration cannot be decoded. *)

BasicAuthFromSecret(secret) ==
  LET basic == Credential(secret.username, secret.password)
  IN  IF Blank(basic) THEN Ok(Nil)
      ELSE IF Complete(basic) THEN Ok(basic) ELSE Failed

\* The configuration's own content matters to nobody: LoadChart only prints it.
TLSClientConfigFromSecret(secret, url) ==
  CASE secret.tls = "none"                          -> Ok(Nil)
    [] secret.tls \in {"pair", "ca"} /\ url.parses  -> Ok(secret.tls)
    [] OTHER                                        -> Failed

ClientOptionsFromSecret(secret, url) ==
  IF BasicAuthFromSecret(secret).err \/ TLSClientConfigFromSecret(secret, url).err
  THEN Failed ELSE Ok(Nil)

\* Mutant: a host that the docker configuration does not name needs no login.
MissingEntryIsAnonymous(url, secret) ==
  IF secret.type # "docker" THEN Ok(Credential(secret.username, secret.password))
  ELSE IF secret.config = Nil THEN Failed
  ELSE Ok(IF secret.config[url.host] = Nil THEN Nobody ELSE secret.config[url.host])

\* The credential a Secret holds for a host.
SecretCredential(url, secret) ==
  IF secret.type # "docker" THEN Ok(Credential(secret.username, secret.password))
  ELSE IF secret.config = Nil \/ secret.config[url.host] = Nil
       THEN Failed
       ELSE Ok(secret.config[url.host])

\* A keychain is the host it serves and the credential it answers with; the
\* anonymous keychain serves every host.
AnonymousKeychain == [registry |-> Nil, cred |-> Nobody]

LoginOptionFromSecret(url, secret) ==
  LET found == SecretCredential(url, secret)
  IN  IF ~url.parses \/ found.err THEN Failed
      ELSE IF Blank(found.val) THEN Ok(AnonymousKeychain)
      ELSE IF Complete(found.val) THEN Ok([registry |-> url.host, cred |-> found.val])
      ELSE Failed

-----------------------------------------------------------------------------
(* From a keychain or an authenticator to a login option.                  *)

\* The keychain asks its helper; an answer for another host is anonymous, and
\* a "<token>" user is an identity token: a user name with no password.
Resolve(keychain, host) ==
  IF keychain.registry # host THEN Nobody
  ELSE IF keychain.cred.username = TokenUsername THEN Credential(TokenUsername, "")
  ELSE keychain.cred

AuthAdaptHelper(auth) ==
  IF Blank(auth) THEN Ok(Nil)
  ELSE IF Complete(auth) THEN Ok(auth) ELSE Failed

KeychainAdaptHelper(keychain, url) ==
  IF ~url.parses THEN Failed ELSE AuthAdaptHelper(Resolve(keychain, url.host))

MakeLoginOption(auth, keychain, url) ==
  IF auth # Nil THEN AuthAdaptHelper(auth)
  ELSE IF keychain # Nil THEN KeychainAdaptHelper(keychain, url)
  ELSE Ok(Nil)

\* What LoadChart makes of a Secret it could read.
LoginFromSecret(url, secret) ==
  LET keychain == LoginOptionFromSecret(url, secret)
  IN  IF ClientOptionsFromSecret(secret, url).err \/ keychain.err THEN Failed
      ELSE MakeLoginOption(Nil, keychain.val, url)
=============================================================================
