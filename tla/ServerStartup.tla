--------------------------- MODULE ServerStartup ---------------------------
(***************************************************************************)
(* muxtop-server up to the moment it serves:                               *)
(* crates/muxtop-server/src/main.rs and tls.rs.  With --tls-generate it    *)
(* writes three files of a directory that all of the user's servers share; *)
(* it can fail or be killed between any two steps and be started again.    *)
(* A certificate, its key and its fingerprint are their generation.        *)
(***************************************************************************)
EXTENDS Startup

CONSTANTS Instance,       \* server processes the user runs at a time
          MaxGeneration   \* bound: certificates generated

ASSUME ServerStartupAssumption == MaxGeneration \in Nat

VARIABLES server,      \* instance -> [at, cli, own, crt, key, alone]
          disk,        \* the data directory: file -> generation, or Absent
          generation   \* certificates generated so far

serverStartupVars == <<server, disk, generation>>

NotRunning == [at |-> "off", cli |-> <<>>, own |-> 0, crt |-> Absent, key |-> Absent, alone |-> TRUE]

ServerStartupInit ==
  /\ server = [s \in Instance |-> NotRunning]
  /\ disk = [f \in {"crt", "key", "fingerprint"} |-> Absent]
  /\ generation = 0

Refuses(s) == server' = [server EXCEPT ![s] = [NotRunning EXCEPT !.at = "refused"]]

\* main up to the TLS files: a pair of files is loaded as it is (here the one in
\* the data directory), or a certificate is generated and its fingerprint told.
\* alone: history, no other instance has written since.
ServerMain(s, cli) ==
  /\ server[s].at \in {"off", "refused"}
  /\ \/ /\ Token(cli) # "ok" \/ (cli.tls_pair <=> cli.tls_generate)
        /\ Refuses(s)
        /\ UNCHANGED generation
     \/ /\ Token(cli) = "ok" /\ cli.tls_pair /\ ~cli.tls_generate
        /\ server' = [server EXCEPT ![s] = [NotRunning EXCEPT !.at = "load crt", !.cli = cli]]
        /\ UNCHANGED generation
     \/ /\ Token(cli) = "ok" /\ cli.tls_generate /\ ~cli.tls_pair
        /\ generation < MaxGeneration
        /\ generation' = generation + 1
        /\ server' = [server EXCEPT ![s] = [NotRunning EXCEPT !.at = "open crt", !.cli = cli,
                                                     !.own = generation']]
  /\ UNCHANGED disk

\* A file is cut to nothing when it is opened and filled by a write of its own.
Steps == <<"open crt", "write crt", "open key", "write key",
           "open fingerprint", "write fingerprint", "load crt">>

FileOf(k) == <<"crt", "key", "fingerprint">>[(k + 1) \div 2]

\* open_secret_file_for_write, write_all and write_fingerprint_file
Persist(s) ==
  \E k \in 1..6 :
    /\ server[s].at = Steps[k]
    /\ disk' = [disk EXCEPT ![FileOf(k)] = IF k % 2 = 1 THEN Absent ELSE server[s].own]
    /\ server' = [i \in Instance |->
                    IF i = s THEN [server[i] EXCEPT !.at = Steps[k + 1]]
                    ELSE [server[i] EXCEPT !.alone = FALSE]]
    /\ UNCHANGED generation

\* acceptor_from_pem reads the certificate, then the key.
LoadCert(s) ==
  /\ server[s].at = "load crt"
  /\ IF disk.crt = Absent THEN Refuses(s)
     ELSE server' = [server EXCEPT ![s].at = "load key", ![s].crt = disk.crt]
  /\ UNCHANGED <<disk, generation>>

\* Mutant: a key is a key.
MatchesAny(crt, key) == key # Absent

\* with_single_cert: the two must belong together.
Matches(crt, key) == key # Absent /\ crt = key

\* The acceptor is built, the rate is looked at, and run is called.
LoadKey(s) ==
  /\ server[s].at = "load key"
  /\ IF Matches(server[s].crt, disk.key) /\ server[s].cli.rate_limit_per_ip >= 0
     THEN server' = [server EXCEPT ![s].at = "serving", ![s].key = disk.key]
     ELSE Refuses(s)
  /\ UNCHANGED <<disk, generation>>

\* A write fails, or the process is killed.
Dies(s) ==
  /\ server[s].at \notin {"off", "refused"}
  /\ server' = [server EXCEPT ![s] = NotRunning]
  /\ UNCHANGED <<disk, generation>>

ServerClis ==
  {[token |-> t, token_file |-> f, tls_generate |-> g, tls_pair |-> p, rate_limit_per_ip |-> r] :
     t \in {Absent, MinToken - 1, MinToken}, f \in {x \in TokenFiles : ~x.given},
     g \in BOOLEAN, p \in BOOLEAN, r \in {-1, 0}}

ServerStartupNext ==
  \/ \E s \in Instance, cli \in ServerClis : ServerMain(s, cli)
  \/ \E s \in Instance : Persist(s) \/ LoadCert(s) \/ LoadKey(s) \/ Dies(s)

-----------------------------------------------------------------------------

\* Whatever was killed while it wrote, and whoever else writes the same files, a
\* server serves a certificate with its own key, and only with a token of full
\* length.  A server that generated its certificate and had the directory to
\* itself serves the one whose fingerprint it told and left on disk.
ServesOwnPair ==
  \A s \in Instance :
    server[s].at = "serving" =>
      /\ server[s].crt = server[s].key /\ server[s].crt # Absent
      /\ TokenLength(server[s].cli) >= MinToken
      /\ server[s].cli.tls_generate /\ server[s].alone =>
           server[s].crt = server[s].own /\ disk.fingerprint = server[s].own
=============================================================================
