------------------------------ MODULE Startup ------------------------------
(***************************************************************************)
(* What muxtop decides before it runs: src/main.rs, with the TLS side of   *)
(* the client (proto/src/tls.rs), the connection to a cluster              *)
(* (cluster_engine.rs, kube_engine.rs) and the terminal's capabilities     *)
(* (tui/src/terminal.rs).  The client decides once, from its arguments and *)
(* its environment.  Texts are classes and a token is its length.          *)
(***************************************************************************)
EXTENDS Integers, Sequences, FiniteSets

CONSTANTS Targets   \* the --remote arguments

VARIABLES client    \* the client's arguments and its outcome

Absent   == -1   \* an option that was not given, a file without content
MinToken == 16

StartupInit == client = [result |-> "none"]

-----------------------------------------------------------------------------
(* The token: the same rule in both binaries.                              *)

\* read_token_file: the length is that of the trimmed text.
ReadTokenFile(file) ==
  CASE ~file.readable        -> "unreadable"
    [] file.trimmed = 0      -> "empty"
    [] file.trimmed < MinToken -> "short"
    [] OTHER                 -> "ok"

\* Mutant: any token that is not empty will do.
TokenAnyLength(cli) ==
  IF cli.token_file.given THEN ReadTokenFile(cli.token_file)
  ELSE IF cli.token > 0 THEN "ok" ELSE "missing"

\* A file wins; a flag or MUXTOP_TOKEN is not trimmed.
Token(cli) ==
  IF cli.token_file.given THEN ReadTokenFile(cli.token_file)
  ELSE CASE cli.token >= MinToken -> "ok"
         [] cli.token > 0         -> "short"
         [] OTHER                 -> "missing"

-----------------------------------------------------------------------------
(* The remote target.  A host is a DNS name, an IPv4 or an IPv6 literal.   *)

\* split_host_port.  An IPv6 literal outside brackets is cut at its last colon
\* like anything else, so its last group is read as a port when none was given.
SplitHostPort(t) ==
  CASE t.bracket = "open" -> "missing_port"
    [] t.port = "none" /\ (t.bracket = "closed" \/ t.host # "v6") -> "missing_port"
    [] t.port = "none" /\ t.lastGroup = "decimal" -> "cut"
    [] t.port = "none" \/ t.port = "bad" -> "invalid_port"
    [] OTHER -> "ok"

\* The host text SplitHostPort leaves: a cut literal is no literal any more,
\* unless what is left of the cut still reads as one.
HostText(t) == IF SplitHostPort(t) = "cut" THEN t.cutHost ELSE t.host

\* parse_remote_target: an IP literal skips DNS and is its own server name; a
\* name is resolved, and stays the name the certificate is checked against.
ParseRemoteTarget(t, dns) ==
  LET split == SplitHostPort(t)
      host  == HostText(t)
  IN  CASE split \notin {"ok", "cut"} -> [result |-> split, sni |-> "none"]
        [] host \in {"v4", "v6"}      -> [result |-> "ok", sni |-> "ip"]
        [] dns = "fails"              -> [result |-> "dns_lookup_failed", sni |-> "none"]
        [] dns = "empty"              -> [result |-> "dns_no_addresses", sni |-> "none"]
        [] host # "name"              -> [result |-> "invalid_sni", sni |-> "none"]
        [] OTHER                      -> [result |-> "ok", sni |-> "name"]

-----------------------------------------------------------------------------
(* Certificates.  A PEM file is unreadable or a sequence of items.         *)

\* connector_from_ca
ConnectorFromCa(pem) ==
  CASE ~pem.readable \/ "garbage" \in pem.items -> "no_certificates"
    [] pem.items = {}                           -> "no_certificates"
    [] "unusable" \in pem.items                 -> "rustls"
    [] OTHER                                    -> "ok"

\* The client's connector: a CA file, or no verification when asked for.
TlsConnector(cli) ==
  CASE cli.tls_ca.given    -> ConnectorFromCa(cli.tls_ca)
    [] cli.tls_skip_verify -> "insecure"
    [] OTHER               -> "tls_required"

-----------------------------------------------------------------------------
(* The cluster.                                                            *)

\* detect_kubeconfig_with: the first source there is.
DetectKubeconfig(env) ==
  CASE env.kubeconfig -> "env" [] env.home -> "home" [] env.in_cluster -> "in_cluster"
    [] OTHER -> "none"

\* is_valid_namespace, with the text reduced to its length, its ends and the
\* characters between them.
IsValidNamespace(ns) == ns.length \in 1..63 /\ ns.ends /\ ns.inner

\* build_config: the flag overrides the namespace of the context.
BuildConfig(source, env, namespace) ==
  CASE source = "none"  -> [error |-> "kubeconfig_not_found"]
    [] ~env.readable    -> [error |-> "unreachable"]
    [] OTHER -> [default_namespace |-> IF namespace.given THEN "flag" ELSE "context"]

\* cluster_kind_from_git_version: the first vendor the version mentions.
ClusterKind(git) ==
  CASE "eks" \in git -> "Eks" [] "gke" \in git -> "Gke" [] "aks" \in git -> "Aks"
    [] "k3d" \in git -> "K3d" [] "k3s" \in git -> "K3s" [] "kind" \in git -> "Kind"
    [] "openshift" \in git -> "Openshift" [] OTHER -> "Generic"

\* KubeEngine::connect: a failed probe_version costs the badge only.
KubeConnect(namespace, env) ==
  LET config == BuildConfig(DetectKubeconfig(env), env, namespace)
  IN  CASE namespace.given /\ ~IsValidNamespace(namespace) -> [error |-> "invalid_namespace"]
        [] "error" \in DOMAIN config -> config
        [] OTHER -> [cluster_kind |-> IF env.probe THEN ClusterKind(env.git) ELSE "Generic",
                     scope        |-> IF namespace.given THEN "flag" ELSE "all",
                     scoped       |-> config.default_namespace]

-----------------------------------------------------------------------------
(* terminal.rs: what the terminal can do.                                  *)

\* detect_color_support, with $TERM reduced to its family.
DetectColorSupport(env) ==
  CASE env.term \in {"", "dumb"}             -> "NoColor"
    [] env.colorterm                         -> "TrueColor"
    [] env.term = "kitty"                    -> "TrueColor"
    [] env.term_program                      -> "TrueColor"
    [] env.term \in {"xterm-256color", "nsterm"} -> "Colors256"
    [] OTHER                                 -> "Basic"

\* detect_unicode: the kernel console paints tofu, whatever the locale says.
DetectUnicode(env) ==
  /\ env.term \notin {"", "dumb", "linux", "vt220"}
  /\ env.locale = "utf-8" \/ env.os \in {"windows", "macos"}

\* detect_mouse
DetectMouse(env) == env.term \notin {"", "dumb", "linux", "vt220", "vt320"}

\* detect_terminal_caps_with: an override only ever takes away.
DetectCaps(env, overrides) ==
  [color   |-> IF overrides.no_color \/ env.no_color THEN "NoColor" ELSE DetectColorSupport(env),
   unicode |-> ~overrides.ascii /\ DetectUnicode(env),
   mouse   |-> ~overrides.no_mouse /\ DetectMouse(env)]

-----------------------------------------------------------------------------
(* The client.                                                             *)

\* clap: what Cli::parse refuses.
ParseRefuses(cli) ==
  \/ cli.token # Absent /\ cli.token_file.given
  \/ cli.tls_ca.given /\ cli.tls_skip_verify
  \/ cli.no_kube /\ cli.kube_context
  \/ cli.refresh \notin 1..3600
  \/ cli.kube_namespace.given /\ ~IsValidNamespace(cli.kube_namespace)

\* The engines a local run has: containers and a cluster when they can be
\* reached, a GPU engine always.
LocalEngines(cli, docker, env) ==
  {e \in {"containers", "kube", "gpu"} :
     /\ ~cli.remote.given
     /\ e = "containers" => ~cli.no_containers /\ docker
     /\ e = "kube"       => ~cli.no_kube /\ "error" \notin DOMAIN KubeConnect(cli.kube_namespace, env)
     /\ e = "gpu"        => ~cli.no_gpu}

\* main and run_app up to the collector: the first obstacle ends the program.
RunApp(cli, dns) ==
  IF ParseRefuses(cli) THEN "usage"
  ELSE IF cli.about THEN "about"
  ELSE IF ~cli.remote.given THEN "local"
  ELSE IF ParseRemoteTarget(cli.remote, dns).result # "ok" THEN "bad_target"
  ELSE IF Token(cli) # "ok" THEN "bad_token"
  ELSE IF TlsConnector(cli) \notin {"ok", "insecure"} THEN "bad_tls"
  ELSE "remote"

RunClient(cli, dns, docker, env, overrides) ==
  client' = [result    |-> RunApp(cli, dns),
             cli       |-> cli,
             overrides |-> overrides,
             sni       |-> ParseRemoteTarget(cli.remote, dns).sni,
             engines   |-> IF RunApp(cli, dns) \in {"usage", "about"} THEN {}
                           ELSE LocalEngines(cli, docker, env),
             caps      |-> DetectCaps(env, overrides)]

-----------------------------------------------------------------------------
(* The arguments.                                                          *)

TokenFiles == {[given |-> FALSE, readable |-> FALSE, trimmed |-> 0]}
                \cup [given : {TRUE}, readable : BOOLEAN, trimmed : {0, MinToken - 1, MinToken}]
Tokens     == {Absent, 0, MinToken - 1, MinToken}
CaFiles    == {[given |-> FALSE, readable |-> FALSE, items |-> {}]}
                \cup [given : {TRUE}, readable : BOOLEAN,
                      items : {{}, {"cert"}, {"cert", "garbage"}, {"cert", "unusable"}}]
Namespaces == {[given |-> FALSE, length |-> 0, ends |-> FALSE, inner |-> FALSE]}
                \cup [given : {TRUE}, length : {0, 63, 64}, ends : BOOLEAN, inner : BOOLEAN]
Overrides  == [no_color : BOOLEAN, ascii : BOOLEAN, no_mouse : BOOLEAN]

Quiet == [remote |-> CHOOSE t \in Targets : ~t.given, about |-> FALSE, refresh |-> 1,
          token |-> Absent, token_file |-> CHOOSE f \in TokenFiles : ~f.given,
          tls_ca |-> CHOOSE f \in CaFiles : ~f.given, tls_skip_verify |-> FALSE,
          no_containers |-> FALSE, no_kube |-> FALSE, no_gpu |-> FALSE,
          kube_context |-> FALSE, kube_namespace |-> CHOOSE n \in Namespaces : ~n.given]
PlainEnv == [kubeconfig |-> FALSE, home |-> FALSE, in_cluster |-> FALSE, readable |-> FALSE,
             probe |-> FALSE, git |-> {}, term |-> "dumb", colorterm |-> FALSE,
             term_program |-> FALSE, no_color |-> FALSE, locale |-> "", os |-> "linux"]
NoOverride == [no_color |-> FALSE, ascii |-> FALSE, no_mouse |-> FALSE]

RunsRemote ==
  \E target \in Targets, token \in Tokens, file \in TokenFiles, ca \in CaFiles,
     skip \in BOOLEAN, dns \in {"ok", "empty", "fails"} :
    RunClient([Quiet EXCEPT !.remote = target, !.token = token, !.token_file = file,
                            !.tls_ca = ca, !.tls_skip_verify = skip],
              dns, FALSE, PlainEnv, NoOverride)

RunsLocal ==
  \E off \in SUBSET {"containers", "kube", "gpu"}, context \in BOOLEAN, ns \in Namespaces,
     refresh \in {0, 3600, 3601}, docker \in BOOLEAN, present \in SUBSET {"env", "home", "token"},
     readable \in BOOLEAN, git \in {{}, {"k3s", "k3d"}}, probe \in BOOLEAN :
    RunClient([Quiet EXCEPT !.no_containers = "containers" \in off, !.no_kube = "kube" \in off,
                            !.no_gpu = "gpu" \in off, !.kube_context = context,
                            !.kube_namespace = ns, !.refresh = refresh],
              "ok", docker,
              [PlainEnv EXCEPT !.kubeconfig = "env" \in present, !.home = "home" \in present,
                               !.in_cluster = "token" \in present, !.readable = readable,
                               !.git = git, !.probe = probe],
              NoOverride)

RunsIn ==
  \E term \in {"", "dumb", "linux", "vt220", "vt320", "xterm", "xterm-256color", "nsterm", "kitty"},
     colorterm, program, noColor \in BOOLEAN, locale \in {"", "utf-8"},
     os \in {"linux", "macos", "windows"}, overrides \in Overrides, about \in BOOLEAN :
    RunClient([Quiet EXCEPT !.about = about], "ok", FALSE,
              [PlainEnv EXCEPT !.term = term, !.colorterm = colorterm, !.term_program = program,
                               !.no_color = noColor, !.locale = locale, !.os = os],
              overrides)

StartupNext == client.result = "none" /\ (RunsRemote \/ RunsLocal \/ RunsIn)

-----------------------------------------------------------------------------

TokenLength(cli) == IF cli.token_file.given THEN cli.token_file.trimmed ELSE cli.token

\* No client talks to a server with a short token, or without checking its
\* certificate unless the user said so, and a remote client touches no local
\* engine.  The namespace a user gives on the command line is a DNS-1123 label, to
\* its last character, before an engine has it; the namespace of the kubeconfig's
\* context is checked nowhere, and nothing is said of it.  What the user switched
\* off is off.
ClientSafe ==
  LET cli == client.cli
  IN  client.result # "none" =>
        /\ client.result = "remote" =>
             /\ TokenLength(cli) >= MinToken
             /\ cli.tls_skip_verify \/ (cli.tls_ca.given /\ cli.tls_ca.items = {"cert"})
             /\ client.engines = {} /\ client.sni # "none"
        /\ "kube" \in client.engines /\ cli.kube_namespace.given =>
             /\ cli.kube_namespace.length \in 1..63
             /\ cli.kube_namespace.ends /\ cli.kube_namespace.inner
        /\ client.overrides.no_color => client.caps.color = "NoColor"
        /\ client.overrides.ascii => ~client.caps.unicode
        /\ client.overrides.no_mouse => ~client.caps.mouse
=============================================================================
