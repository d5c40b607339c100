------------------------------- MODULE Qiankui ------------------------------
(***************************************************************************)
(* The client's commands (bin/qiankui.rs) and the settings they read:      *)
(* options, the environment, the configuration and the CA file it names.   *)
(* Commands are run one after the other; how saving and loading interleave *)
(* is Jiandu's.                                                            *)
(*                                                                         *)
(* Settings are functions of those of their fields that are given: relay,  *)
(* token, listen, ca, insecure, timeout; a flag that is not given is no    *)
(* field.  A path is [dir, name], with None for the directory of a         *)
(* relative one.                                                           *)
(***************************************************************************)
EXTENDS Token

CONSTANTS Dirs, ConfigDir, \* directories, and the one of the configuration
          Names,           \* of CA files
          Relay,           \* relay texts: "blank", "unusable" as a URL, "usable"
          Listening,       \* listen texts that are not blank and hold no blank
          DefaultListen,
          CommandLines,    \* the settings a command line gives
          Environments,    \* values of QIANKUI_TOKEN, None if unset
          Entered,         \* what comes from standard input or is typed
          Edited           \* configurations a user may write by hand

Files == [dir : Dirs, name : Names]
Paths == [dir : Dirs \cup {None}, name : Names]
Fields == {"relay", "token", "listen", "ca", "insecure", "timeout"}

ASSUME QiankuiAssumption ==
    /\ ConfigDir \in Dirs /\ None \notin Dirs /\ DefaultListen \in Listening
    /\ (Environments \ {None}) \cup Entered \subseteq Tokens
    /\ \A settings \in CommandLines \cup Edited :
          /\ DOMAIN settings \subseteq Fields
          /\ "token" \in DOMAIN settings => settings.token \in Tokens
          /\ "ca" \in DOMAIN settings => settings.ca \in Paths

VARIABLES config, \* the stored settings, None without a configuration
          disk,   \* each CA file: "absent", "junk" or "certificate"
          bindable, \* listen texts that can be bound now: an address, and free
          used    \* the settings of the client that runs, None if it refused

\* History: what the last `config init` was asked for, None when the
\* configuration is not from it; and the texts the stored and the used token
\* were given as, None when there is none.  No guard reads them.
VARIABLES initialized, storedText, usedText

environment == <<disk, bindable>>
history     == <<initialized, storedText, usedText>>
qvars       == <<config, environment, used, history>>

QiankuiInit ==
    /\ config = None /\ used = None
    /\ initialized = None /\ storedText = None /\ usedText = None
    /\ disk = [file \in Files |-> "absent"]
    /\ bindable = Listening

\* What the operating system makes of a path in directory `dir`.
Absolute(path, dir) == IF path.dir = None THEN [path EXCEPT !.dir = dir] ELSE path

\* ClientConfig::validate
Valid(s, dir) ==
    /\ {"relay", "token"} \subseteq DOMAIN s
    /\ Relay[s.relay] # "blank" /\ s.listen \in Listening
    /\ Parses(s.token)
    /\ s.timeout \in Timeouts
    /\ "ca" \in DOMAIN s => disk[Absolute(s.ca, dir)] # "absent"

\* HttpConnectTransport::new: the relay is an https URL of a host and no more,
\* and the CA file, which is not read if insecure, holds certificates only.
NewTransport(s, dir) ==
    /\ Relay[s.relay] = "usable"
    /\ "ca" \in DOMAIN s => s.insecure \/ disk[Absolute(s.ca, dir)] = "certificate"

\* validate_transport
ValidTransport(s, dir) == Valid(s, dir) /\ NewTransport(s, dir)

\* Settings, and others for the fields they do not give.
Over(s, others) ==
    [f \in DOMAIN s \cup DOMAIN others |-> IF f \in DOMAIN s THEN s[f] ELSE others[f]]

Defaults == [listen |-> DefaultListen, insecure |-> FALSE, timeout |-> 10000]

-----------------------------------------------------------------------------
(* config init                                                             *)

\* read_token; `entered` is on standard input, or typed when nothing else is
\* given.  None if --token and --token-stdin are both there.
\* Bug: standard input is taken as it is.
ReadTokenUntrimmed(options, stdin, env, entered) ==
    IF stdin THEN IF "token" \in DOMAIN options THEN None ELSE entered
    ELSE IF "token" \in DOMAIN options THEN options.token
    ELSE IF env # None THEN env
    ELSE Trimmed(entered)

ReadToken(options, stdin, env, entered) ==
    IF stdin THEN IF "token" \in DOMAIN options THEN None ELSE Trimmed(entered)
    ELSE IF "token" \in DOMAIN options THEN options.token
    ELSE IF env # None THEN env
    ELSE Trimmed(entered)

\* fs::canonicalize.  Bug: the path is stored as it was given.
AsGiven(path, dir) == path
Canonical(path, dir) == Absolute(path, dir)

NewConfig(options, token, dir) ==
    LET ca == IF "ca" \in DOMAIN options
              THEN [ca |-> Canonical(options.ca, dir)] ELSE <<>>
    IN  Over(ca, Over(options, Over([token |-> token], Defaults)))

\* The configuration is saved over another one only with --force (Jiandu).
ConfigInit(options, stdin, force, env, entered, dir) ==
    LET token == ReadToken(options, stdin, env, entered)
        new   == NewConfig(options, token, dir)
    IN  /\ token # None /\ ValidTransport(new, dir)
        /\ config = None \/ force
        /\ config' = new
        /\ initialized' = IF "ca" \in DOMAIN options
                          THEN Over([ca |-> Absolute(options.ca, dir)], new) ELSE new
        /\ storedText' = IF "token" \in DOMAIN options THEN options.token
                         ELSE IF env # None /\ ~stdin THEN env ELSE entered
        /\ UNCHANGED <<environment, used, usedText>>

-----------------------------------------------------------------------------
(* run                                                                     *)

\* ClientConfig::load: a relative CA path is one of the configuration's
\* directory.
Loaded ==
    LET ca == IF "ca" \in DOMAIN config
              THEN [ca |-> Absolute(config.ca, ConfigDir)] ELSE <<>>
    IN  Over(ca, Over(config, Defaults))

\* resolve_config: options before the environment before the configuration.
\* A configuration that is there is loaded, and so must be valid, even if
\* everything in it is overridden; and `insecure` can only be added to it.
ResolveConfig(options, env, dir) ==
    LET stored == IF config = None THEN <<>> ELSE Loaded
        token  == IF env = None THEN <<>> ELSE [token |-> env]
        merged == Over(options, Over(token, Over(stored, Defaults)))
    IN  IF /\ config = None \/ Valid(stored, dir)
           /\ ValidTransport(merged, dir)
        THEN merged ELSE None

\* run_proxy: what was resolved is used if its address can be bound; `validate`
\* has looked at no more of it than that it is not blank and holds no blank.
Started(options, env, dir) ==
    LET resolved == ResolveConfig(options, env, dir)
    IN  IF resolved # None /\ resolved.listen \in bindable THEN resolved ELSE None

Run(options, env, dir) ==
    /\ used' = Started(options, env, dir)
    /\ usedText' = IF used' = None THEN None
                   ELSE IF "token" \in DOMAIN options THEN options.token
                   ELSE IF env # None THEN env ELSE storedText
    /\ UNCHANGED <<config, environment, initialized, storedText>>

-----------------------------------------------------------------------------
(* The user, and other programs                                            *)

Edit(settings) ==
    /\ config' = settings /\ initialized' = None
    /\ storedText' = IF settings # None /\ "token" \in DOMAIN settings
                     THEN settings.token ELSE None
    /\ UNCHANGED <<environment, used, usedText>>

ChangeFile(file, content) ==
    /\ disk' = [disk EXCEPT ![file] = content]
    /\ UNCHANGED <<config, bindable, used, history>>

\* An address is taken, goes away with its interface, or comes back.
ChangeAddress(listen) ==
    /\ bindable' = IF listen \in bindable THEN bindable \ {listen} ELSE bindable \cup {listen}
    /\ UNCHANGED <<config, disk, used, history>>

QiankuiNext ==
    \/ \E options \in CommandLines, env \in Environments, dir \in Dirs :
         \/ Run(options, env, dir)
         \/ \E stdin, force \in BOOLEAN, entered \in Entered :
              ConfigInit(options, stdin, force, env, entered, dir)
    \/ \E settings \in Edited \cup {None} : Edit(settings)
    \/ \E file \in Files, content \in {"absent", "junk", "certificate"} :
         ChangeFile(file, content)
    \/ \E listen \in Listening : ChangeAddress(listen)

-----------------------------------------------------------------------------
(* Properties                                                              *)

\* What `config init` accepted, a later `qiankui` without options uses, all of
\* it, from whatever directory both were called; it refuses to start only if
\* the CA file it was given is gone or spoilt, or the address it is to listen on,
\* which `config init` does not try, cannot be bound (bin/qiankui.rs:160-290;
\* README.md:104 "After initialization, daily use is simply:").
InitMeansRuns ==
    initialized # None =>
        \A dir \in Dirs :
            LET plain == Started(<<>>, None, dir) IN
            \/ plain = initialized
            \/ /\ plain = None
               /\ \/ "ca" \in DOMAIN initialized /\ disk[initialized.ca] # "certificate"
                  \/ initialized.listen \notin bindable
=============================================================================
