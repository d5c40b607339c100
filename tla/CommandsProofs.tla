--------------------------- MODULE CommandsProofs ---------------------------
(***************************************************************************)
(* The two programs' commands, for every setting, token and address: what  *)
(* was configured is used, a token's text means the same to both, and the  *)
(* relay's policy lets through what its operator wrote.                    *)
(***************************************************************************)
EXTENDS Commands, TLAPS

\* A token is what was given, but perhaps for the end of its line.
ReadFrom(token, text) ==
    text \in Tokens /\ (token = text \/ token = Trimmed(text))

\* The tokens that are stored or used are those of the texts that were given,
\* and a program that runs has one that it parsed.
TokensRead ==
    /\ config # None /\ "token" \in DOMAIN config => ReadFrom(config.token, storedText)
    /\ used # None => Parses(used.token) /\ ReadFrom(used.token, usedText)
    /\ started # None => Parses(started.token) /\ ReadFrom(started.token, started.text)

\* What `config init` has accepted is there and needs nothing but its CA file.
Accepted ==
    initialized # None =>
        /\ config = initialized /\ config = [f \in DOMAIN config |-> config[f]]
        /\ {"relay", "token"} \cup DOMAIN Defaults \subseteq DOMAIN config
        /\ Relay[config.relay] = "usable" /\ config.listen \in Listening
        /\ Parses(config.token) /\ config.timeout \in Timeouts
        /\ "ca" \in DOMAIN config => config.ca \in Paths /\ config.ca.dir # None

\* A relay that runs understood all of its ports.
PortsRead ==
    /\ started # None =>
          /\ started.line \in StartLines
          /\ started.ports = ParseAllowedPorts(started.line.ports) /\ started.ports # {}
    /\ dialed # None =>
          /\ started # None /\ <<dialed.port, dialed.address>> \in Asked
          /\ dialed.permitted <=>
                /\ dialed.port \in started.ports
                /\ started.line.allowPrivate \/ IsPublicAddress(dialed.address)

IInv == TypeOK /\ TokensRead /\ Accepted /\ PortsRead

-----------------------------------------------------------------------------
(* Settings over others.                                                   *)

\* Over has the fields of both, and the first one's values before the other's.
LEMMA OverFields ==
    ASSUME NEW s, NEW others
    PROVE  /\ DOMAIN Over(s, others) = DOMAIN s \cup DOMAIN others
           /\ \A f \in DOMAIN s : Over(s, others)[f] = s[f]
           /\ \A f \in DOMAIN others \ DOMAIN s : Over(s, others)[f] = others[f]
           /\ Over(s, others) = [f \in DOMAIN Over(s, others) |-> Over(s, others)[f]]
  BY DEF Over

\* Settings that say nothing else change nothing.
LEMMA OverSame ==
    ASSUME NEW s, NEW others, others = [f \in DOMAIN others |-> others[f]],
           DOMAIN s \subseteq DOMAIN others, \A f \in DOMAIN s : s[f] = others[f]
    PROVE  Over(s, others) = others
  BY DEF Over

\* Nor do defaults for what is given.
LEMMA OverEnough ==
    ASSUME NEW s, NEW others, s = [f \in DOMAIN s |-> s[f]], DOMAIN others \subseteq DOMAIN s
    PROVE  Over(s, others) = s
  BY DEF Over

\* The empty record has no field.
LEMMA NoFields == DOMAIN <<>> = {}
  OBVIOUS

\* The fields every configuration has by default,
LEMMA DefaultFields ==
    DOMAIN Defaults = {"listen", "insecure", "timeout"}
  BY DEF Defaults

\* and the records of one field.
LEMMA OneField ==
    ASSUME NEW v
    PROVE  /\ DOMAIN [token |-> v] = {"token"} /\ [token |-> v]["token"] = v
           /\ DOMAIN [ca |-> v] = {"ca"} /\ [ca |-> v]["ca"] = v
  OBVIOUS

-----------------------------------------------------------------------------
(* Tokens and paths.                                                       *)

\* A trimmed token is a token,
LEMMA TrimmedToken ==
    ASSUME NEW token \in Tokens
    PROVE  Trimmed(token) \in Tokens
  BY DEF Trimmed, Tokens

\* a path made absolute stays so,
LEMMA AbsolutePath ==
    ASSUME NEW path \in Paths, NEW dir \in Dirs
    PROVE  /\ Absolute(path, dir) \in Paths /\ Absolute(path, dir).dir # None
           /\ path.dir # None => Absolute(path, dir) = path
  BY QiankuiAssumption DEF Absolute, Paths

\* what a program has parsed is what both programs read of the text it was given
\* as,
LEMMA TextRead ==
    ASSUME NEW token, NEW text, ReadFrom(token, text)
    PROVE  /\ token \in Tokens /\ token.word = text.word
           /\ Parses(token) => /\ FromArgOrEnv(None, text) = token
                               /\ ReadToken(<<>>, TRUE, None, text) = token
  <1>1. text \in Tokens /\ Trimmed(text) \in Tokens /\ Trimmed(text).word = text.word
    BY TrimmedToken DEF ReadFrom, Trimmed, Tokens
  <1>2. Parses(token) => Trimmed(text) = token
    BY <1>1 DEF ReadFrom, Parses, Trimmed
  <1>3. FromArgOrEnv(None, text) = Trimmed(text)
    BY <1>1, TokenAssumption DEF FromArgOrEnv
  <1>4. ReadToken(<<>>, TRUE, None, text) = Trimmed(text)
    BY NoFields DEF ReadToken
  <1>5. QED
    BY <1>1, <1>2, <1>3, <1>4 DEF ReadFrom

\* and what is read from a file, the environment or a prompt is one.
LEMMA TokenRead ==
    ASSUME NEW options \in CommandLines, NEW stdin, NEW env \in Environments,
           NEW entered \in Entered, ReadToken(options, stdin, env, entered) # None
    PROVE  ReadToken(options, stdin, env, entered) \in Tokens
  BY QiankuiAssumption, TrimmedToken DEF ReadToken

-----------------------------------------------------------------------------
(* config init                                                             *)

\* What it stores has the fields of the command line and of the defaults, and a
\* CA file's path that does not depend on where it is read.
LEMMA NewFields ==
    ASSUME NEW options \in CommandLines, NEW token \in Tokens, NEW dir \in Dirs,
           NEW new, new = NewConfig(options, token, dir)
    PROVE  /\ new = [f \in DOMAIN new |-> new[f]]
           /\ DOMAIN new = DOMAIN options \cup {"token"} \cup DOMAIN Defaults
           /\ new.token \in Tokens
           /\ new.token = IF "token" \in DOMAIN options THEN options.token ELSE token
           /\ "ca" \in DOMAIN options =>
                 new.ca = Absolute(options.ca, dir) /\ new.ca \in Paths /\ new.ca.dir # None
           /\ \A f \in DOMAIN options \ {"ca"} : new[f] = options[f]
  <1> DEFINE ca == IF "ca" \in DOMAIN options
                   THEN [ca |-> Canonical(options.ca, dir)] ELSE <<>>
             least == Over([token |-> token], Defaults)
             rest == Over(options, least)
  <1>1. new = Over(ca, rest)
    BY DEF NewConfig
  <1>2. /\ DOMAIN ca = DOMAIN options \cap {"ca"}
        /\ "ca" \in DOMAIN options => ca["ca"] = Absolute(options.ca, dir)
    BY NoFields, OneField DEF Canonical
  <1>3. DOMAIN least = {"token"} \cup DOMAIN Defaults /\ least["token"] = token
    BY OneField, DefaultFields DEF Over
  <1> HIDE DEF ca, least
  <1>4. /\ DOMAIN rest = DOMAIN options \cup {"token"} \cup DOMAIN Defaults
        /\ \A f \in DOMAIN options : rest[f] = options[f]
        /\ "token" \notin DOMAIN options => rest["token"] = token
    BY <1>3, DefaultFields DEF Over
  <1> HIDE DEF rest
  <1>5. /\ DOMAIN new = DOMAIN options \cup {"token"} \cup DOMAIN Defaults
        /\ new = [f \in DOMAIN new |-> new[f]]
        /\ \A f \in DOMAIN options \ {"ca"} : new[f] = options[f]
        /\ "token" \notin DOMAIN options => new["token"] = token
        /\ "ca" \in DOMAIN options => new["ca"] = Absolute(options.ca, dir)
    BY <1>1, <1>2, <1>4, DefaultFields DEF Over
  <1>6. "token" \in DOMAIN options => options.token \in Tokens
    BY QiankuiAssumption
  <1>7. "ca" \in DOMAIN options => options.ca \in Paths
    BY QiankuiAssumption
  <1>8. QED
    BY <1>5, <1>6, <1>7, AbsolutePath
\* What has been stored is what `config init` was asked for, and is accepted.
LEMMA InitStep ==
    ASSUME TypeOK, NEW options \in CommandLines, NEW stdin, NEW force,
           NEW env \in Environments, NEW entered \in Entered, NEW dir \in Dirs,
           ConfigInit(options, stdin, force, env, entered, dir)
    PROVE  /\ DOMAIN config' \subseteq Fields
           /\ ReadFrom(config'.token, storedText')
           /\ Accepted'
           /\ UNCHANGED <<disk, bindable, used, usedText>>
  <1> DEFINE token == ReadToken(options, stdin, env, entered)
             new == NewConfig(options, token, dir)
  <1>1. token \in Tokens
    BY TokenRead DEF ConfigInit
  <1>2. /\ ValidTransport(new, dir) /\ config' = new
        /\ UNCHANGED <<disk, bindable, used, usedText>>
        /\ initialized' = IF "ca" \in DOMAIN options
                          THEN Over([ca |-> Absolute(options.ca, dir)], new) ELSE new
        /\ storedText' = IF "token" \in DOMAIN options THEN options.token
                         ELSE IF env # None /\ ~stdin THEN env ELSE entered
        /\ token # None
    BY DEF ConfigInit, environment
  <1>12. ReadFrom(IF "token" \in DOMAIN options THEN options.token ELSE token, storedText')
    BY <1>2, QiankuiAssumption DEF ReadToken, ReadFrom
  <1> HIDE DEF token
  <1>3. PICK stored : stored = new
    OBVIOUS
  <1>4. /\ stored = [f \in DOMAIN stored |-> stored[f]]
        /\ DOMAIN stored = DOMAIN options \cup {"token"} \cup DOMAIN Defaults
        /\ "token" \in DOMAIN options => stored.token = options.token
        /\ "token" \notin DOMAIN options => stored.token = token
        /\ "ca" \in DOMAIN options =>
              /\ stored.ca = Absolute(options.ca, dir)
              /\ stored.ca \in Paths /\ stored.ca.dir # None
    BY <1>1, <1>3, NewFields
  <1>5. config' = stored /\ initialized' = stored
    <2>1. CASE "ca" \in DOMAIN options
      <3>1. Over([ca |-> Absolute(options.ca, dir)], stored) = stored
        BY <1>4, <2>1, OneField, OverSame
      <3>2. QED
        BY <1>2, <1>3, <2>1, <3>1
    <2>2. CASE "ca" \notin DOMAIN options
      BY <1>2, <1>3, <2>2
    <2>3. QED
      BY <2>1, <2>2
  <1>6. /\ {"relay", "token"} \subseteq DOMAIN stored
        /\ Relay[stored.relay] = "usable" /\ stored.listen \in Listening
        /\ Parses(stored.token) /\ stored.timeout \in Timeouts
    BY <1>2, <1>3 DEF ValidTransport, Valid, NewTransport
  <1>7. DOMAIN options \subseteq Fields
    BY QiankuiAssumption
  <1>8. DOMAIN stored \subseteq Fields
    BY <1>4, <1>7, DefaultFields DEF Fields
  <1>9. "ca" \in DOMAIN stored => "ca" \in DOMAIN options
    BY <1>4, DefaultFields
  <1>10. Accepted'
    BY <1>4, <1>5, <1>6, <1>9, DefaultFields DEF Accepted, Defaults
  <1>11. QED
    BY <1>2, <1>4, <1>5, <1>8, <1>10, <1>12

-----------------------------------------------------------------------------
(* run                                                                     *)

\* The token it uses is that of the text that was given as an option, else of
\* the environment's, else of the stored one.
LEMMA RunToken ==
    ASSUME NEW options \in CommandLines, NEW env \in Environments, NEW dir \in Dirs,
           config # None /\ "token" \in DOMAIN config => ReadFrom(config.token, storedText),
           NEW s, s = ResolveConfig(options, env, dir), s # None
    PROVE  /\ Parses(s.token)
           /\ ReadFrom(s.token, IF "token" \in DOMAIN options THEN options.token
                                ELSE IF env # None THEN env ELSE storedText)
  <1> DEFINE stored == IF config = None THEN <<>> ELSE Loaded
             token == IF env = None THEN <<>> ELSE [token |-> env]
             merged == Over(options, Over(token, Over(stored, Defaults)))
  <1>1. ValidTransport(merged, dir) /\ s = merged
    BY DEF ResolveConfig
  <1>2. "token" \in DOMAIN s /\ Parses(s.token)
    BY <1>1 DEF ValidTransport, Valid
  <1>3. "token" \in DOMAIN stored => ReadFrom(stored["token"], storedText)
    <2>1. SUFFICES ASSUME config # None, "token" \in DOMAIN Loaded
                   PROVE  ReadFrom(Loaded["token"], storedText)
      BY NoFields
    <2>2. "token" \in DOMAIN config /\ Loaded["token"] = config["token"]
      <3> DEFINE ca == IF "ca" \in DOMAIN config
                       THEN [ca |-> Absolute(config.ca, ConfigDir)] ELSE <<>>
      <3>1. "token" \notin DOMAIN ca /\ Loaded = Over(ca, Over(config, Defaults))
        BY NoFields, OneField DEF Loaded
      <3> HIDE DEF ca
      <3>2. QED
        BY <2>1, <3>1, DefaultFields DEF Over
    <2>3. QED
      BY <2>1, <2>2
  <1>4. /\ "token" \in DOMAIN token <=> env # None
        /\ env # None => token["token"] = env /\ ReadFrom(env, env)
    BY NoFields, OneField, QiankuiAssumption DEF ReadFrom
  <1>5. "token" \in DOMAIN options => ReadFrom(options["token"], options["token"])
    BY QiankuiAssumption DEF ReadFrom
  <1> HIDE DEF stored, token
  <1>6. ReadFrom(s["token"], IF "token" \in DOMAIN options THEN options["token"]
                             ELSE IF env # None THEN env ELSE storedText)
    BY <1>1, <1>2, <1>3, <1>4, <1>5, DefaultFields DEF Over
  <1>7. QED
    BY <1>2, <1>6

\* Without options, what was accepted is used, unless its CA file is gone or its
\* address cannot be bound.
LEMMA AcceptedRuns ==
    ASSUME Accepted, initialized # None, NEW dir \in Dirs
    PROVE  \/ Started(<<>>, None, dir) = initialized
           \/ /\ Started(<<>>, None, dir) = None
              /\ \/ "ca" \in DOMAIN initialized /\ disk[initialized.ca] # "certificate"
                 \/ initialized.listen \notin bindable
  <1>1. /\ config = initialized /\ config # None /\ config = [f \in DOMAIN config |-> config[f]]
        /\ {"relay", "token"} \cup DOMAIN Defaults \subseteq DOMAIN config
        /\ Relay[config.relay] = "usable" /\ config.listen \in Listening
        /\ Parses(config.token) /\ config.timeout \in Timeouts
        /\ "ca" \in DOMAIN config => config.ca \in Paths /\ config.ca.dir # None
    BY DEF Accepted
  <1>2. "ca" \in DOMAIN config =>
           \A d \in Dirs : Absolute(config.ca, d) = config.ca
    BY <1>1, AbsolutePath
  <1>3. Over(config, Defaults) = config
    BY <1>1, OverEnough
  <1>4. Loaded = config
    <2>1. CASE "ca" \in DOMAIN config
      <3>1. Absolute(config.ca, ConfigDir) = config.ca
        BY <1>2, <2>1, QiankuiAssumption
      <3>2. Over([ca |-> config.ca], config) = config
        BY <1>1, <2>1, OneField, OverSame
      <3>3. QED
        BY <1>3, <2>1, <3>1, <3>2 DEF Loaded
    <2>2. CASE "ca" \notin DOMAIN config
      <3>1. Over(<<>>, config) = config
        BY <1>1, NoFields, OverSame
      <3>2. QED
        BY <1>3, <2>2, <3>1 DEF Loaded
    <2>3. QED
      BY <2>1, <2>2
  <1>5. Over(<<>>, Over(<<>>, Over(Loaded, Defaults))) = config
    <2>1. Over(<<>>, config) = config
      BY <1>1, NoFields, OverSame
    <2>2. QED
      BY <1>3, <1>4, <2>1
  <1>6. ResolveConfig(<<>>, None, dir) =
           IF Valid(config, dir) /\ ValidTransport(config, dir) THEN config ELSE None
    BY <1>1, <1>4, <1>5 DEF ResolveConfig
  <1>7. ("ca" \in DOMAIN config => disk[config.ca] = "certificate") =>
           Valid(config, dir) /\ ValidTransport(config, dir)
    BY <1>1, <1>2 DEF ValidTransport, Valid, NewTransport
  <1>8. /\ ("ca" \in DOMAIN config => disk[config.ca] = "certificate") =>
              ResolveConfig(<<>>, None, dir) = config
        /\ ResolveConfig(<<>>, None, dir) \in {config, None}
    BY <1>6, <1>7
  <1>9. Started(<<>>, None, dir) =
           IF ResolveConfig(<<>>, None, dir) # None /\ config.listen \in bindable
           THEN config ELSE None
    BY <1>8 DEF Started
  <1>10. QED
    BY <1>1, <1>8, <1>9

-----------------------------------------------------------------------------
(* The relay's policy: addresses in the order of their first unit that     *)
(* differs.                                                                *)

\* The order of IPv4 addresses, unit by unit,
LEMMA Before4 ==
    ASSUME NEW a \in [1..4 -> Nat], NEW b \in [1..4 -> Nat]
    PROVE  Before(a, b) <=>
              \/ a[1] < b[1]
              \/ a[1] = b[1] /\ a[2] < b[2]
              \/ a[1] = b[1] /\ a[2] = b[2] /\ a[3] < b[3]
              \/ a[1] = b[1] /\ a[2] = b[2] /\ a[3] = b[3] /\ a[4] < b[4]
  <1>1. Len(a) = 4
    OBVIOUS
  <1> DEFINE first(i) == a[i] < b[i] /\ \A j \in 1..(i - 1) : a[j] = b[j]
  <1>2. Before(a, b) <=> first(1) \/ first(2) \/ first(3) \/ first(4)
    BY <1>1 DEF Before
  <1>3. QED
    BY <1>2

\* and of IPv6 addresses.
LEMMA Before8 ==
    ASSUME NEW a \in [1..8 -> Nat], NEW b \in [1..8 -> Nat]
    PROVE  Before(a, b) <=>
              \/ a[1] < b[1]
              \/ a[1] = b[1] /\ a[2] < b[2]
              \/ a[1] = b[1] /\ a[2] = b[2] /\ a[3] < b[3]
              \/ a[1] = b[1] /\ a[2] = b[2] /\ a[3] = b[3] /\
                    \/ a[4] < b[4]
                    \/ a[4] = b[4] /\ a[5] < b[5]
                    \/ a[4] = b[4] /\ a[5] = b[5] /\ a[6] < b[6]
                    \/ a[4] = b[4] /\ a[5] = b[5] /\ a[6] = b[6] /\ a[7] < b[7]
                    \/ a[4] = b[4] /\ a[5] = b[5] /\ a[6] = b[6] /\ a[7] = b[7] /\ a[8] < b[8]
  <1>1. Len(a) = 8
    OBVIOUS
  <1> DEFINE first(i) == a[i] < b[i] /\ \A j \in 1..(i - 1) : a[j] = b[j]
  <1>2. Before(a, b) <=> \/ first(1) \/ first(2) \/ first(3) \/ first(4)
                         \/ first(5) \/ first(6) \/ first(7) \/ first(8)
    BY <1>1 DEF Before
  <1>3. QED
    BY <1>2

\* An address is in one of the networks that the policy reserves just when it
\* is from their first to their last one.
LEMMA Networks4 ==
    ASSUME NEW a \in [1..4 -> Units(255)]
    PROVE  IsPublic4(a) <=> \A range \in Ranges4 : Apart(a, range)
  <1> DEFINE in(network) == InNetwork(a, network, 8)
             apart(first, last) == Apart(a, <<first, last>>)
  <1>0. a \in [1..4 -> Nat] /\ a[1] <= 255 /\ a[2] <= 255 /\ a[3] <= 255 /\ a[4] <= 255
    BY DEF Units
  <1>1. in(<<<<10, 0, 0, 0>>, 8>>) <=> ~apart(<<10, 0, 0, 0>>, <<10, 255, 255, 255>>)
    BY <1>0, Before4 DEF InNetwork, Apart
  <1>2. in(<<<<0, 0, 0, 0>>, 8>>) <=> ~apart(<<0, 0, 0, 0>>, <<0, 255, 255, 255>>)
    BY <1>0, Before4 DEF InNetwork, Apart
  <1>3. in(<<<<100, 64, 0, 0>>, 10>>) <=> ~apart(<<100, 64, 0, 0>>, <<100, 127, 255, 255>>)
    BY <1>0, Before4 DEF InNetwork, Apart
  <1>4. in(<<<<127, 0, 0, 0>>, 8>>) <=> ~apart(<<127, 0, 0, 0>>, <<127, 255, 255, 255>>)
    BY <1>0, Before4 DEF InNetwork, Apart
  <1>5. in(<<<<169, 254, 0, 0>>, 16>>) <=> ~apart(<<169, 254, 0, 0>>, <<169, 254, 255, 255>>)
    BY <1>0, Before4 DEF InNetwork, Apart
  <1>6. in(<<<<172, 16, 0, 0>>, 12>>) <=> ~apart(<<172, 16, 0, 0>>, <<172, 31, 255, 255>>)
    BY <1>0, Before4 DEF InNetwork, Apart
  <1>7. in(<<<<192, 0, 0, 0>>, 24>>) <=> ~apart(<<192, 0, 0, 0>>, <<192, 0, 0, 255>>)
    BY <1>0, Before4 DEF InNetwork, Apart
  <1>8. in(<<<<192, 0, 2, 0>>, 24>>) <=> ~apart(<<192, 0, 2, 0>>, <<192, 0, 2, 255>>)
    BY <1>0, Before4 DEF InNetwork, Apart
  <1>9. in(<<<<192, 88, 99, 0>>, 24>>) <=> ~apart(<<192, 88, 99, 0>>, <<192, 88, 99, 255>>)
    BY <1>0, Before4 DEF InNetwork, Apart
  <1>10. in(<<<<192, 168, 0, 0>>, 16>>) <=> ~apart(<<192, 168, 0, 0>>, <<192, 168, 255, 255>>)
    BY <1>0, Before4 DEF InNetwork, Apart
  <1>11. in(<<<<198, 18, 0, 0>>, 15>>) <=> ~apart(<<198, 18, 0, 0>>, <<198, 19, 255, 255>>)
    BY <1>0, Before4 DEF InNetwork, Apart
  <1>12. in(<<<<198, 51, 100, 0>>, 24>>) <=> ~apart(<<198, 51, 100, 0>>, <<198, 51, 100, 255>>)
    BY <1>0, Before4 DEF InNetwork, Apart
  <1>13. in(<<<<203, 0, 113, 0>>, 24>>) <=> ~apart(<<203, 0, 113, 0>>, <<203, 0, 113, 255>>)
    BY <1>0, Before4 DEF InNetwork, Apart
  <1>14. in(<<<<224, 0, 0, 0>>, 4>>) \/ in(<<<<240, 0, 0, 0>>, 4>>) <=>
            ~apart(<<224, 0, 0, 0>>, <<255, 255, 255, 255>>)
    BY <1>0, Before4 DEF InNetwork, Apart
  <1> HIDE DEF in, apart
  <1>15. IsPublic4(a) <=>
             /\ ~in(<<<<10, 0, 0, 0>>, 8>>)
             /\ ~in(<<<<0, 0, 0, 0>>, 8>>)
             /\ ~in(<<<<100, 64, 0, 0>>, 10>>)
             /\ ~in(<<<<127, 0, 0, 0>>, 8>>)
             /\ ~in(<<<<169, 254, 0, 0>>, 16>>)
             /\ ~in(<<<<172, 16, 0, 0>>, 12>>)
             /\ ~in(<<<<192, 0, 0, 0>>, 24>>)
             /\ ~in(<<<<192, 0, 2, 0>>, 24>>)
             /\ ~in(<<<<192, 88, 99, 0>>, 24>>)
             /\ ~in(<<<<192, 168, 0, 0>>, 16>>)
             /\ ~in(<<<<198, 18, 0, 0>>, 15>>)
             /\ ~in(<<<<198, 51, 100, 0>>, 24>>)
             /\ ~in(<<<<203, 0, 113, 0>>, 24>>)
             /\ ~in(<<<<224, 0, 0, 0>>, 4>>) /\ ~in(<<<<240, 0, 0, 0>>, 4>>)
    BY DEF IsPublic4, Reserved4, in
  <1>16. (\A range \in Ranges4 : Apart(a, range)) <=>
             /\ apart(<<10, 0, 0, 0>>, <<10, 255, 255, 255>>)
             /\ apart(<<0, 0, 0, 0>>, <<0, 255, 255, 255>>)
             /\ apart(<<100, 64, 0, 0>>, <<100, 127, 255, 255>>)
             /\ apart(<<127, 0, 0, 0>>, <<127, 255, 255, 255>>)
             /\ apart(<<169, 254, 0, 0>>, <<169, 254, 255, 255>>)
             /\ apart(<<172, 16, 0, 0>>, <<172, 31, 255, 255>>)
             /\ apart(<<192, 0, 0, 0>>, <<192, 0, 0, 255>>)
             /\ apart(<<192, 0, 2, 0>>, <<192, 0, 2, 255>>)
             /\ apart(<<192, 88, 99, 0>>, <<192, 88, 99, 255>>)
             /\ apart(<<192, 168, 0, 0>>, <<192, 168, 255, 255>>)
             /\ apart(<<198, 18, 0, 0>>, <<198, 19, 255, 255>>)
             /\ apart(<<198, 51, 100, 0>>, <<198, 51, 100, 255>>)
             /\ apart(<<203, 0, 113, 0>>, <<203, 0, 113, 255>>)
             /\ apart(<<224, 0, 0, 0>>, <<255, 255, 255, 255>>)
    BY DEF Ranges4, apart
  <1>17. QED
    BY <1>1, <1>2, <1>3, <1>4, <1>5, <1>6, <1>7, <1>8, <1>9, <1>10, <1>11, <1>12, <1>13, <1>14, <1>15, <1>16

\* Outside every reserved IPv6 network is outside every range of it, and with a
\* first unit of 0 always so.
LEMMA Networks6 ==
    ASSUME NEW a \in [1..8 -> Units(65535)]
    PROVE  /\ (\A network \in Reserved6 : ~InNetwork(a, network, 16)) <=>
                 \A range \in Native6 : Apart(a, range)
           /\ a[1] = 0 => \A range \in Native6 : Apart(a, range)
  <1> DEFINE in(network) == InNetwork(a, network, 16)
             apart(first, units) == Apart(a, <<first, LastOf(units)>>)
  <1>0. /\ a \in [1..8 -> Nat]
        /\ a[1] <= 65535 /\ a[2] <= 65535 /\ a[3] <= 65535 /\ a[4] <= 65535
        /\ a[5] <= 65535 /\ a[6] <= 65535 /\ a[7] <= 65535 /\ a[8] <= 65535
    BY DEF Units
  <1>1. /\ in(<<<<100, 65435, 0, 0, 0, 0, 0, 0>>, 96>>) <=> ~apart(<<100, 65435, 0, 0, 0, 0, 0, 0>>, <<100, 65435, 0, 0, 0, 0>>)
        /\ a[1] = 0 => apart(<<100, 65435, 0, 0, 0, 0, 0, 0>>, <<100, 65435, 0, 0, 0, 0>>)
    <2>1. LastOf(<<100, 65435, 0, 0, 0, 0>>) = <<100, 65435, 0, 0, 0, 0, 65535, 65535>>
      BY DEF LastOf
    <2>2. QED
      BY <1>0, <2>1, Before8 DEF InNetwork, Apart
  <1>2. /\ in(<<<<100, 65435, 1, 0, 0, 0, 0, 0>>, 48>>) <=> ~apart(<<100, 65435, 1, 0, 0, 0, 0, 0>>, <<100, 65435, 1>>)
        /\ a[1] = 0 => apart(<<100, 65435, 1, 0, 0, 0, 0, 0>>, <<100, 65435, 1>>)
    <2>1. LastOf(<<100, 65435, 1>>) = <<100, 65435, 1, 65535, 65535, 65535, 65535, 65535>>
      BY DEF LastOf
    <2>2. QED
      BY <1>0, <2>1, Before8 DEF InNetwork, Apart
  <1>3. /\ in(<<<<256, 0, 0, 0, 0, 0, 0, 0>>, 64>>) <=> ~apart(<<256, 0, 0, 0, 0, 0, 0, 0>>, <<256, 0, 0, 0>>)
        /\ a[1] = 0 => apart(<<256, 0, 0, 0, 0, 0, 0, 0>>, <<256, 0, 0, 0>>)
    <2>1. LastOf(<<256, 0, 0, 0>>) = <<256, 0, 0, 0, 65535, 65535, 65535, 65535>>
      BY DEF LastOf
    <2>2. QED
      BY <1>0, <2>1, Before8 DEF InNetwork, Apart
  <1>4. /\ in(<<<<8193, 0, 0, 0, 0, 0, 0, 0>>, 23>>) <=> ~apart(<<8193, 0, 0, 0, 0, 0, 0, 0>>, <<8193, 511>>)
        /\ a[1] = 0 => apart(<<8193, 0, 0, 0, 0, 0, 0, 0>>, <<8193, 511>>)
    <2>1. LastOf(<<8193, 511>>) = <<8193, 511, 65535, 65535, 65535, 65535, 65535, 65535>>
      BY DEF LastOf
    <2>2. QED
      BY <1>0, <2>1, Before8 DEF InNetwork, Apart
  <1>5. /\ in(<<<<8193, 3512, 0, 0, 0, 0, 0, 0>>, 32>>) <=> ~apart(<<8193, 3512, 0, 0, 0, 0, 0, 0>>, <<8193, 3512>>)
        /\ a[1] = 0 => apart(<<8193, 3512, 0, 0, 0, 0, 0, 0>>, <<8193, 3512>>)
    <2>1. LastOf(<<8193, 3512>>) = <<8193, 3512, 65535, 65535, 65535, 65535, 65535, 65535>>
      BY DEF LastOf
    <2>2. QED
      BY <1>0, <2>1, Before8 DEF InNetwork, Apart
  <1>6. /\ in(<<<<8194, 0, 0, 0, 0, 0, 0, 0>>, 16>>) <=> ~apart(<<8194, 0, 0, 0, 0, 0, 0, 0>>, <<8194>>)
        /\ a[1] = 0 => apart(<<8194, 0, 0, 0, 0, 0, 0, 0>>, <<8194>>)
    <2>1. LastOf(<<8194>>) = <<8194, 65535, 65535, 65535, 65535, 65535, 65535, 65535>>
      BY DEF LastOf
    <2>2. QED
      BY <1>0, <2>1, Before8 DEF InNetwork, Apart
  <1>7. /\ in(<<<<64512, 0, 0, 0, 0, 0, 0, 0>>, 7>>) <=> ~apart(<<64512, 0, 0, 0, 0, 0, 0, 0>>, <<65023>>)
        /\ a[1] = 0 => apart(<<64512, 0, 0, 0, 0, 0, 0, 0>>, <<65023>>)
    <2>1. LastOf(<<65023>>) = <<65023, 65535, 65535, 65535, 65535, 65535, 65535, 65535>>
      BY DEF LastOf
    <2>2. QED
      BY <1>0, <2>1, Before8 DEF InNetwork, Apart
  <1>8. /\ in(<<<<65152, 0, 0, 0, 0, 0, 0, 0>>, 10>>) <=> ~apart(<<65152, 0, 0, 0, 0, 0, 0, 0>>, <<65215>>)
        /\ a[1] = 0 => apart(<<65152, 0, 0, 0, 0, 0, 0, 0>>, <<65215>>)
    <2>1. LastOf(<<65215>>) = <<65215, 65535, 65535, 65535, 65535, 65535, 65535, 65535>>
      BY DEF LastOf
    <2>2. QED
      BY <1>0, <2>1, Before8 DEF InNetwork, Apart
  <1>9. /\ in(<<<<65280, 0, 0, 0, 0, 0, 0, 0>>, 8>>) <=> ~apart(<<65280, 0, 0, 0, 0, 0, 0, 0>>, <<65535>>)
        /\ a[1] = 0 => apart(<<65280, 0, 0, 0, 0, 0, 0, 0>>, <<65535>>)
    <2>1. LastOf(<<65535>>) = <<65535, 65535, 65535, 65535, 65535, 65535, 65535, 65535>>
      BY DEF LastOf
    <2>2. QED
      BY <1>0, <2>1, Before8 DEF InNetwork, Apart
  <1> HIDE DEF in, apart
  <1>10. (\A network \in Reserved6 : ~InNetwork(a, network, 16)) <=>
             /\ ~in(<<<<100, 65435, 0, 0, 0, 0, 0, 0>>, 96>>)
             /\ ~in(<<<<100, 65435, 1, 0, 0, 0, 0, 0>>, 48>>)
             /\ ~in(<<<<256, 0, 0, 0, 0, 0, 0, 0>>, 64>>)
             /\ ~in(<<<<8193, 0, 0, 0, 0, 0, 0, 0>>, 23>>)
             /\ ~in(<<<<8193, 3512, 0, 0, 0, 0, 0, 0>>, 32>>)
             /\ ~in(<<<<8194, 0, 0, 0, 0, 0, 0, 0>>, 16>>)
             /\ ~in(<<<<64512, 0, 0, 0, 0, 0, 0, 0>>, 7>>)
             /\ ~in(<<<<65152, 0, 0, 0, 0, 0, 0, 0>>, 10>>)
             /\ ~in(<<<<65280, 0, 0, 0, 0, 0, 0, 0>>, 8>>)
    BY DEF Reserved6, in
  <1>11. (\A range \in Native6 : Apart(a, range)) <=>
             /\ apart(<<100, 65435, 0, 0, 0, 0, 0, 0>>, <<100, 65435, 0, 0, 0, 0>>)
             /\ apart(<<100, 65435, 1, 0, 0, 0, 0, 0>>, <<100, 65435, 1>>)
             /\ apart(<<256, 0, 0, 0, 0, 0, 0, 0>>, <<256, 0, 0, 0>>)
             /\ apart(<<8193, 0, 0, 0, 0, 0, 0, 0>>, <<8193, 511>>)
             /\ apart(<<8193, 3512, 0, 0, 0, 0, 0, 0>>, <<8193, 3512>>)
             /\ apart(<<8194, 0, 0, 0, 0, 0, 0, 0>>, <<8194>>)
             /\ apart(<<64512, 0, 0, 0, 0, 0, 0, 0>>, <<65023>>)
             /\ apart(<<65152, 0, 0, 0, 0, 0, 0, 0>>, <<65215>>)
             /\ apart(<<65280, 0, 0, 0, 0, 0, 0, 0>>, <<65535>>)
    BY DEF Native6, apart
  <1>12. QED
    BY <1>1, <1>2, <1>3, <1>4, <1>5, <1>6, <1>7, <1>8, <1>9, <1>10, <1>11
\* The reserved ranges of IPv4 are of addresses.
LEMMA Ranges4Typed ==
    \A range \in Ranges4 :
        range[1] \in [1..4 -> Units(255)] /\ range[2] \in [1..4 -> Units(255)]
  BY DEF Ranges4, Units

\* An IPv6 address that holds an IPv4 address keeps its order among those that
\* hold one in the same way, and is before or after all others.
LEMMA EmbeddedTyped ==
    ASSUME NEW x \in [1..4 -> Units(255)], NEW between \in {0, 65535}
    PROVE  /\ In6(x, between) \in [1..8 -> Nat]
           /\ \A i \in 1..5 : In6(x, between)[i] = 0
           /\ In6(x, between)[6] = between
           /\ In6(x, between)[7] = 256 * x[1] + x[2]
           /\ In6(x, between)[8] = 256 * x[3] + x[4]
  <1>1. x[1] \in Nat /\ x[2] \in Nat /\ x[3] \in Nat /\ x[4] \in Nat
    BY DEF Units
  <1>2. 256 * x[1] + x[2] \in Nat /\ 256 * x[3] + x[4] \in Nat
    BY <1>1
  <1>3. QED
    BY <1>2 DEF In6

\* Two octets are of a segment.
LEMMA Octets ==
    ASSUME NEW p \in Nat, NEW q \in Nat, NEW r \in Nat, NEW s \in Nat, q <= 255, s <= 255
    PROVE  /\ 256 * p + q < 256 * r + s <=> p < r \/ (p = r /\ q < s)
           /\ 256 * p + q = 256 * r + s <=> p = r /\ q = s
  OBVIOUS

\* A 16-bit unit is two bytes.
LEMMA Segment ==
    ASSUME NEW n \in Nat, n <= 65535
    PROVE  /\ n \div 256 \in Units(255) /\ n % 256 \in Units(255)
           /\ 256 * (n \div 256) + (n % 256) = n
  <1>1. n \div 256 \in Nat /\ n % 256 \in Nat /\ n % 256 <= 255 /\ 256 * (n \div 256) + (n % 256) = n
    OBVIOUS
  <1>2. n \div 256 <= 255
    BY <1>1
  <1>3. QED
    BY <1>1, <1>2 DEF Units

\* Addresses embedded alike keep their order,
LEMMA SameOrder ==
    ASSUME NEW x \in [1..4 -> Units(255)], NEW y \in [1..4 -> Units(255)],
           NEW between \in {0, 65535}
    PROVE  Before(In6(x, between), In6(y, between)) <=> Before(x, y)
  <1>1. PICK u, v : u = In6(x, between) /\ v = In6(y, between)
    OBVIOUS
  <1>2. /\ u \in [1..8 -> Nat] /\ v \in [1..8 -> Nat]
        /\ u[1] = 0 /\ u[2] = 0 /\ u[3] = 0 /\ u[4] = 0 /\ u[5] = 0 /\ u[6] = between
        /\ v[1] = 0 /\ v[2] = 0 /\ v[3] = 0 /\ v[4] = 0 /\ v[5] = 0 /\ v[6] = between
        /\ u[7] = 256 * x[1] + x[2] /\ u[8] = 256 * x[3] + x[4]
        /\ v[7] = 256 * y[1] + y[2] /\ v[8] = 256 * y[3] + y[4]
    BY <1>1, EmbeddedTyped
  <1>3. Before(u, v) <=> u[7] < v[7] \/ (u[7] = v[7] /\ u[8] < v[8])
    <2>1. \A i \in 1..6 : u[i] = v[i]
      BY <1>2
    <2>2. u[1] = v[1] /\ u[2] = v[2] /\ u[3] = v[3] /\ u[4] = v[4] /\ u[5] = v[5] /\ u[6] = v[6]
      BY <2>1
    <2>3. u \in [1..8 -> Nat] /\ v \in [1..8 -> Nat]
      BY <1>2
    <2>4. QED
      BY <2>2, <2>3, Before8
  <1>4. /\ x \in [1..4 -> Nat] /\ x[1] <= 255 /\ x[2] <= 255 /\ x[3] <= 255 /\ x[4] <= 255
        /\ y \in [1..4 -> Nat] /\ y[1] <= 255 /\ y[2] <= 255 /\ y[3] <= 255 /\ y[4] <= 255
    BY DEF Units
  <1>5. /\ u[7] < v[7] <=> x[1] < y[1] \/ (x[1] = y[1] /\ x[2] < y[2])
        /\ u[7] = v[7] <=> x[1] = y[1] /\ x[2] = y[2]
        /\ u[8] < v[8] <=> x[3] < y[3] \/ (x[3] = y[3] /\ x[4] < y[4])
    <2>1. /\ x[1] \in Nat /\ x[2] \in Nat /\ x[3] \in Nat /\ x[4] \in Nat
          /\ y[1] \in Nat /\ y[2] \in Nat /\ y[3] \in Nat /\ y[4] \in Nat
      BY <1>4
    <2>2. /\ 256 * x[1] + x[2] < 256 * y[1] + y[2] <=> x[1] < y[1] \/ (x[1] = y[1] /\ x[2] < y[2])
          /\ 256 * x[1] + x[2] = 256 * y[1] + y[2] <=> x[1] = y[1] /\ x[2] = y[2]
      BY <1>4, <2>1, Octets
    <2>3. 256 * x[3] + x[4] < 256 * y[3] + y[4] <=> x[3] < y[3] \/ (x[3] = y[3] /\ x[4] < y[4])
      BY <1>4, <2>1, Octets
    <2>4. QED
      BY <1>2, <2>2, <2>3
  <1>6. QED
    <2>1. x \in [1..4 -> Nat] /\ y \in [1..4 -> Nat]
      BY <1>4
    <2>2. Before(x, y) <=> \/ x[1] < y[1]
                           \/ x[1] = y[1] /\ x[2] < y[2]
                           \/ x[1] = y[1] /\ x[2] = y[2] /\ x[3] < y[3]
                           \/ x[1] = y[1] /\ x[2] = y[2] /\ x[3] = y[3] /\ x[4] < y[4]
      BY <2>1, Before4
    <2>3. Before(u, v) <=> Before(x, y)
      BY <1>3, <1>5, <2>2
    <2>4. QED
      BY <1>1, <2>3

\* and what is embedded otherwise is apart from all of them.
LEMMA OtherEmbedding ==
    ASSUME NEW a \in [1..8 -> Nat], NEW range \in Ranges4, NEW between \in {0, 65535},
           (\E i \in 1..5 : a[i] # 0) \/ a[6] # between
    PROVE  Apart(a, Range6(range, between))
  <1>0. range[1] \in [1..4 -> Units(255)] /\ range[2] \in [1..4 -> Units(255)]
    BY Ranges4Typed
  <1>1. PICK u, v : u = In6(range[1], between) /\ v = In6(range[2], between)
    OBVIOUS
  <1>2. /\ u \in [1..8 -> Nat] /\ v \in [1..8 -> Nat]
        /\ u[1] = 0 /\ u[2] = 0 /\ u[3] = 0 /\ u[4] = 0 /\ u[5] = 0 /\ u[6] = between
        /\ v[1] = 0 /\ v[2] = 0 /\ v[3] = 0 /\ v[4] = 0 /\ v[5] = 0 /\ v[6] = between
    BY <1>0, <1>1, EmbeddedTyped
  <1>3. a[1] # 0 \/ a[2] # 0 \/ a[3] # 0 \/ a[4] # 0 \/ a[5] # 0 \/ a[6] # between
    OBVIOUS
  <1>4. Before(a, u) \/ Before(v, a)
    BY <1>2, <1>3, Before8
  <1>5. QED
    BY <1>1, <1>4 DEF Apart, Range6

\* The policy lets through just the addresses outside the reserved ranges.
LEMMA PublicIsOutside ==
    ASSUME NEW a \in Addresses
    PROVE  IsPublicAddress(a) <=> Outside(a)
  <1>1. CASE a \in [1..4 -> Units(255)]
    <2>1. Len(a) = 4
      BY <1>1
    <2>2. QED
      BY <1>1, <2>1, Networks4 DEF IsPublicAddress, Outside
  <1>2. CASE a \in [1..8 -> Units(65535)]
    <2>1. Len(a) = 8 /\ a \in [1..8 -> Nat]
      BY <1>2 DEF Units
    <2>2. Outside(a) <=>
             /\ \A range \in Native6 : Apart(a, range)
             /\ \A range \in Ranges4 : \A between \in {0, 65535} :
                   Apart(a, Range6(range, between))
      <3>1. Outside(a) <=> \A range \in Ranges6 : Apart(a, range)
        BY <2>1 DEF Outside
      <3>2. QED
        <4>1. /\ Native6 \subseteq Ranges6
              /\ \A range \in Ranges4 : \A between \in {0, 65535} :
                    Range6(range, between) \in Ranges6
          BY DEF Ranges6
        <4>2. ASSUME NEW range6 \in Ranges6, range6 \notin Native6
              PROVE  \E range \in Ranges4 : \E between \in {0, 65535} :
                        range6 = Range6(range, between)
          BY <4>2 DEF Ranges6
        <4>3. ASSUME \A range \in Native6 : Apart(a, range),
                     \A range \in Ranges4 : \A between \in {0, 65535} :
                        Apart(a, Range6(range, between)),
                     NEW range6 \in Ranges6
              PROVE  Apart(a, range6)
          BY <4>2, <4>3
        <4>4. QED
          BY <3>1, <4>1, <4>3
    <2>3. CASE ~Embeds(a)
      <3>1. \A range \in Ranges4 : \A between \in {0, 65535} :
               Apart(a, Range6(range, between))
        <4>1. \A between \in {0, 65535} : (\E i \in 1..5 : a[i] # 0) \/ a[6] # between
          BY <2>3 DEF Embeds
        <4>2. QED
          BY <2>1, <4>1, OtherEmbedding
      <3>2. QED
        BY <1>2, <2>1, <2>2, <2>3, <3>1, Networks6 DEF IsPublicAddress
    <2>4. CASE Embeds(a)
      <3> DEFINE e == Embedded(a)
      <3>1. e \in [1..4 -> Units(255)] /\ a = In6(e, a[6]) /\ a[6] \in {0, 65535}
        <4>1. /\ a[7] \in Nat /\ a[7] <= 65535 /\ a[8] \in Nat /\ a[8] <= 65535
              /\ \A i \in 1..5 : a[i] = 0
              /\ a[6] \in {0, 65535}
          BY <1>2, <2>4 DEF Units, Embeds
        <4>2. \A n \in Nat : n <= 65535 =>
                 /\ n \div 256 \in Units(255) /\ n % 256 \in Units(255)
                 /\ 256 * (n \div 256) + (n % 256) = n
          BY Segment
        <4>3. e \in [1..4 -> Units(255)]
          BY <4>1, <4>2 DEF Embedded
        <4>4. e[1] = a[7] \div 256 /\ e[2] = a[7] % 256 /\ e[3] = a[8] \div 256 /\ e[4] = a[8] % 256
          BY DEF Embedded
        <4>5. PICK b : b = In6(e, a[6])
          OBVIOUS
        <4>6. \A i \in 1..8 : a[i] = b[i]
          <5>1. /\ \A i \in 1..5 : b[i] = 0
                /\ b[6] = a[6] /\ b[7] = a[7] /\ b[8] = a[8]
            BY <4>1, <4>2, <4>3, <4>4, <4>5, EmbeddedTyped
          <5>2. QED
            BY <4>1, <5>1
        <4>7. b \in [1..8 -> Nat]
          BY <4>1, <4>3, <4>5, EmbeddedTyped
        <4>8. QED
          BY <2>1, <4>1, <4>3, <4>5, <4>6, <4>7
      <3> HIDE DEF e
      <3>2. \A range \in Native6 : Apart(a, range)
        BY <1>2, <2>4, Networks6 DEF Embeds
      <3>3. ASSUME NEW range \in Ranges4
            PROVE  /\ Apart(a, Range6(range, a[6])) <=> Apart(e, range)
                   /\ \A between \in {0, 65535} \ {a[6]} :
                         Apart(a, Range6(range, between))
        <4>1. range[1] \in [1..4 -> Units(255)] /\ range[2] \in [1..4 -> Units(255)]
          BY Ranges4Typed
        <4>2. /\ Before(In6(e, a[6]), In6(range[1], a[6])) <=> Before(e, range[1])
              /\ Before(In6(range[2], a[6]), In6(e, a[6])) <=> Before(range[2], e)
          BY <3>1, <4>1, SameOrder
        <4>3. Apart(a, Range6(range, a[6])) <=> Apart(e, range)
          BY <3>1, <4>2 DEF Apart, Range6
        <4>4. \A between \in {0, 65535} \ {a[6]} :
                 Apart(a, Range6(range, between))
          <5>1. ASSUME NEW between \in {0, 65535}, between # a[6]
                PROVE  Apart(a, Range6(range, between))
            BY <2>1, <5>1, OtherEmbedding
          <5>2. QED
            BY <5>1
        <4>5. QED
          BY <4>3, <4>4
      <3>4. Outside(a) <=> \A range \in Ranges4 : Apart(e, range)
        <4>1. ASSUME \A range \in Ranges4 : Apart(e, range),
                     NEW range \in Ranges4, NEW between \in {0, 65535}
              PROVE  Apart(a, Range6(range, between))
          <5>1. CASE between = a[6]
            BY <3>3, <4>1, <5>1
          <5>2. CASE between # a[6]
            BY <3>3, <5>2
          <5>3. QED
            BY <5>1, <5>2
        <4>2. ASSUME NEW range \in Ranges4,
                     \A between \in {0, 65535} :
                        Apart(a, Range6(range, between))
              PROVE  Apart(e, range)
          BY <3>1, <3>3, <4>2
        <4>3. QED
          BY <2>2, <3>2, <4>1, <4>2
      <3>5. IsPublicAddress(a) <=> IsPublic4(e)
        BY <2>1, <2>4 DEF IsPublicAddress, e
      <3>6. QED
        BY <3>1, <3>4, <3>5, Networks4
    <2>5. QED
      BY <2>3, <2>4
  <1>3. QED
    BY <1>1, <1>2 DEF Addresses
-----------------------------------------------------------------------------
(* The relay's start.                                                      *)

\* Ports that were understood are those of the command line.
LEMMA PortsParsed ==
    ASSUME NEW items \in Seq(Nat \cup {None}), ParseAllowedPorts(items) # {}
    PROVE  /\ items \in Seq(PortNumbers)
           /\ ParseAllowedPorts(items) = {items[i] : i \in 1..Len(items)}
           /\ ParseAllowedPorts(items) \subseteq PortNumbers
  <1>1. \A i \in 1..Len(items) : items[i] \in PortNumbers
    BY DEF ParseAllowedPorts
  <1>2. ParseAllowedPorts(items) = {items[i] : i \in 1..Len(items)}
    BY <1>1 DEF ParseAllowedPorts
  <1>3. Len(items) \in Nat /\ items \in [1..Len(items) -> Nat \cup {None}]
    OBVIOUS
  <1>4. items \in [1..Len(items) -> PortNumbers]
    BY <1>1, <1>3
  <1>5. items \in Seq(PortNumbers)
    BY <1>3, <1>4
  <1>6. QED
    BY <1>1, <1>2, <1>5

\* A relay starts with the token it was given and the ports of its command line.
LEMMA StartStep ==
    ASSUME NEW line \in StartLines, NEW env \in StartTokens, NEW cert, NEW key, NEW bound,
           Start(line, env, cert, key, bound)
    PROVE  /\ started' # None =>
                 /\ started'.line = line
                 /\ Parses(started'.token) /\ ReadFrom(started'.token, started'.text)
                 /\ started'.ports = ParseAllowedPorts(line.ports) /\ started'.ports # {}
           /\ dialed' = None
  <1>1. SUFFICES ASSUME started' # None
                 PROVE  /\ started'.line = line
                        /\ Parses(started'.token) /\ ReadFrom(started'.token, started'.text)
                        /\ started'.ports = ParseAllowedPorts(line.ports) /\ started'.ports # {}
    BY DEF Start
  <1> DEFINE token == FromArgOrEnv(line.token, env)
             ports == ParseAllowedPorts(line.ports)
             text == IF line.token # None THEN line.token ELSE env
  <1>2. /\ started' = [line |-> line, token |-> token, ports |-> ports, text |-> text]
        /\ token # None /\ Parses(token) /\ ports # {}
    BY <1>1 DEF Start
  <1>3. ReadFrom(token, text)
    BY <1>2, QiankuiRelayAssumption DEF FromArgOrEnv, ReadFrom
  <1>4. QED
    BY <1>2, <1>3

\* No step of the relay command breaks the invariant,
LEMMA RelayStep ==
    ASSUME IInv, QiankuiRelayNext, UNCHANGED qvars
    PROVE  IInv'
  <1>0. UNCHANGED <<config, disk, bindable, used, initialized, storedText, usedText>>
    BY DEF qvars, environment, history
  <1>1. ASSUME NEW line \in StartLines, NEW env \in StartTokens, NEW cert, NEW key,
               NEW bound, Start(line, env, cert, key, bound)
        PROVE  IInv'
    <2>1. /\ started' # None =>
                /\ started'.line = line
                /\ Parses(started'.token) /\ ReadFrom(started'.token, started'.text)
                /\ started'.ports = ParseAllowedPorts(line.ports) /\ started'.ports # {}
          /\ dialed' = None
      BY <1>1, StartStep
    <2>2. started' # None => started'.ports \subseteq PortNumbers
      BY <2>1, PortsParsed, QiankuiRelayAssumption
    <2>3. PortsRead'
      BY <2>1 DEF PortsRead
    <2>4. TypeOK'
      BY <1>0, <2>2 DEF IInv, TypeOK
    <2>5. TokensRead' /\ Accepted'
      BY <1>0, <2>1 DEF IInv, TokensRead, Accepted
    <2>6. QED
      BY <2>3, <2>4, <2>5 DEF IInv
  <1>2. ASSUME NEW request \in Asked, Dial(request[1], request[2])
        PROVE  IInv'
    <2>1. /\ started # None /\ started' = started
          /\ dialed' = [port |-> request[1], address |-> request[2],
                        permitted |->
                           /\ request[1] \in started.ports
                           /\ started.line.allowPrivate \/ IsPublicAddress(request[2])]
      BY <1>2 DEF Dial
    <2>2. <<request[1], request[2]>> \in Asked
      BY QiankuiRelayAssumption
    <2>3. PortsRead'
      BY <2>1, <2>2 DEF IInv, PortsRead
    <2>4. TypeOK' /\ TokensRead' /\ Accepted'
      BY <1>0, <2>1 DEF IInv, TypeOK, TokensRead, Accepted
    <2>5. QED
      BY <2>3, <2>4 DEF IInv
  <1>3. QED
    BY <1>1, <1>2 DEF QiankuiRelayNext

-----------------------------------------------------------------------------
(* The client's steps.                                                     *)

\* nor does one of the client command.
LEMMA ClientStep ==
    ASSUME IInv, QiankuiNext, UNCHANGED rvars
    PROVE  IInv'
  <1>0. UNCHANGED <<started, dialed>>
    BY DEF rvars
  <1>1. PortsRead'
    BY <1>0 DEF IInv, PortsRead
  <1>2. ASSUME NEW options \in CommandLines, NEW env \in Environments, NEW dir \in Dirs,
               Run(options, env, dir)
        PROVE  IInv'
    <2> DEFINE text == IF "token" \in DOMAIN options THEN options.token
                       ELSE IF env # None THEN env ELSE storedText
    <2>1. /\ used' = Started(options, env, dir)
          /\ used' # None => usedText' = text
          /\ UNCHANGED <<config, disk, bindable, initialized, storedText>>
      BY <1>2 DEF Run, environment
    <2>2. used' # None => used' = ResolveConfig(options, env, dir)
      BY <2>1 DEF Started
    <2>3. used' # None => Parses(used'.token) /\ ReadFrom(used'.token, text)
      BY <2>2, RunToken DEF IInv, TokensRead
    <2> HIDE DEF text
    <2>4. used' # None => used'.token \in Tokens
      BY <2>3, TextRead
    <2>5. QED
      BY <1>0, <1>1, <2>1, <2>3, <2>4 DEF IInv, TypeOK, TokensRead, Accepted
  <1>3. ASSUME NEW options \in CommandLines, NEW env \in Environments, NEW dir \in Dirs,
               NEW stdin \in BOOLEAN, NEW force \in BOOLEAN, NEW entered \in Entered,
               ConfigInit(options, stdin, force, env, entered, dir)
        PROVE  IInv'
    <2>1. /\ DOMAIN config' \subseteq Fields /\ ReadFrom(config'.token, storedText')
          /\ Accepted' /\ UNCHANGED <<disk, bindable, used, usedText>>
      BY <1>3, InitStep DEF IInv
    <2>2. QED
      BY <1>0, <1>1, <2>1 DEF IInv, TypeOK, TokensRead
  <1>4. ASSUME NEW settings \in Edited \cup {None}, Edit(settings)
        PROVE  IInv'
    <2>1. /\ config' = settings /\ initialized' = None
          /\ (settings # None /\ "token" \in DOMAIN settings) => storedText' = settings.token
          /\ UNCHANGED <<disk, bindable, used, usedText>>
      BY <1>4 DEF Edit, environment
    <2>2. settings # None =>
             /\ DOMAIN settings \subseteq Fields
             /\ "token" \in DOMAIN settings => ReadFrom(settings.token, settings.token)
      BY QiankuiAssumption DEF ReadFrom
    <2>3. QED
      BY <1>0, <1>1, <2>1, <2>2 DEF IInv, TypeOK, TokensRead, Accepted
  <1>5. ASSUME NEW file \in Files, NEW content \in {"absent", "junk", "certificate"},
               ChangeFile(file, content)
        PROVE  IInv'
    <2>1. /\ disk' = [disk EXCEPT ![file] = content]
          /\ UNCHANGED <<config, bindable, used, initialized, storedText, usedText>>
      BY <1>5 DEF ChangeFile, history
    <2>2. QED
      BY <1>0, <1>1, <2>1 DEF IInv, TypeOK, TokensRead, Accepted
  <1>6. ASSUME NEW listen \in Listening, ChangeAddress(listen)
        PROVE  IInv'
    <2>1. /\ bindable' \in {bindable \ {listen}, bindable \cup {listen}}
          /\ UNCHANGED <<config, disk, used, initialized, storedText, usedText>>
      BY <1>6 DEF ChangeAddress, history
    <2>2. QED
      BY <1>0, <1>1, <2>1 DEF IInv, TypeOK, TokensRead, Accepted
  <1>7. QED
    BY <1>2, <1>3, <1>4, <1>5, <1>6 DEF QiankuiNext

-----------------------------------------------------------------------------
(* The theorems.                                                           *)

\* The invariant holds at the start,
LEMMA InitIInv == Init => IInv
  BY DEF Init, QiankuiInit, QiankuiRelayInit, IInv, TypeOK, TokensRead, Accepted, PortsRead

\* no step breaks it,
LEMMA NextIInv == IInv /\ [Next]_vars => IInv'
  <1> SUFFICES ASSUME IInv, [Next]_vars PROVE IInv'
    OBVIOUS
  <1>1. CASE UNCHANGED vars
    BY <1>1
    DEF vars, qvars, rvars, environment, history, IInv, TypeOK, TokensRead, Accepted, PortsRead
  <1>2. QED
    BY <1>1, ClientStep, RelayStep DEF Next

\* and so it always holds.
LEMMA Invariance == Spec => []IInv
  BY InitIInv, NextIInv, PTL DEF Spec

\* Both programs only run with settings of the right kinds.
THEOREM TypeCorrect == Spec => []TypeOK
  <1>1. IInv => TypeOK
    BY DEF IInv
  <1>2. QED
    BY <1>1, Invariance, PTL

\* Whatever words, command lines, environments and configurations there are, a
\* text that starts one program gives the other one, from its environment or its
\* standard input, the same token, and two that run meet exactly if the texts
\* they were given first are of one word (fujie/token.rs:24-77,
\* bin/qiankui.rs:215-230 and 265-269).
THEOREM TokensMeetAlways == Spec => []TokensMeet
  <1>1. ASSUME IInv PROVE TokensMeet
    <2>1. ASSUME initialized # None
          PROVE  FromArgOrEnv(None, storedText) = initialized.token
      <3>1. /\ config # None /\ config = initialized /\ "token" \in DOMAIN config
            /\ Parses(config.token)
        BY <1>1, <2>1 DEF IInv, Accepted
      <3>2. ReadFrom(config.token, storedText)
        BY <1>1, <3>1 DEF IInv, TokensRead
      <3>3. QED
        BY <3>1, <3>2, TextRead
    <2>2. ASSUME started # None
          PROVE  ReadToken(<<>>, TRUE, None, started.text) = started.token
      BY <1>1, <2>2, TextRead DEF IInv, TokensRead
    <2>3. ASSUME used # None, started # None
          PROVE  VerifyBearer(used.token, started.token) <=> usedText.word = started.text.word
      <3> DEFINE sent == used.token
                 held == started.token
      <3>1. /\ Parses(sent) /\ ReadFrom(sent, usedText)
            /\ Parses(held) /\ ReadFrom(held, started.text)
        BY <1>1, <2>3 DEF IInv, TokensRead
      <3> HIDE DEF sent, held
      <3>2. /\ sent \in Tokens /\ sent.word = usedText.word
            /\ held \in Tokens /\ held.word = started.text.word
        BY <3>1, TextRead
      <3>3. VerifyBearer(sent, held) <=> sent.word = held.word
        BY <3>1, <3>2 DEF VerifyBearer, Parses, Tokens
      <3>4. QED
        BY <3>2, <3>3 DEF sent, held
    <2>4. QED
      BY <2>1, <2>2, <2>3 DEF TokensMeet
  <1>2. QED
    BY <1>1, Invariance, PTL

\* What `config init` accepted is what `qiankui` uses, all of it and from every
\* directory, unless the CA file is gone or spoilt or the address it is to listen
\* on cannot be bound (bin/qiankui.rs:160-290).
THEOREM InitMeansRunsAlways == Spec => []InitMeansRuns
  <1>1. IInv => InitMeansRuns
    BY AcceptedRuns DEF IInv, InitMeansRuns
  <1>2. QED
    BY <1>1, Invariance, PTL

\* A relay that runs lets through just the ports its operator wrote and, unless
\* it was told otherwise, just the addresses outside the reserved ranges, for
\* every port and every IPv4 and IPv6 address (fujie/policy.rs:43-150).
THEOREM DialsAsStartedAlways == Spec => []DialsAsStarted
  <1>1. IInv => DialsAsStarted
    <2> SUFFICES ASSUME IInv, dialed # None
                 PROVE  /\ started.line.ports \in Seq(PortNumbers)
                        /\ dialed.permitted <=>
                              /\ \E i \in 1..Len(started.line.ports) :
                                    started.line.ports[i] = dialed.port
                              /\ started.line.allowPrivate \/ Outside(dialed.address)
      BY DEF DialsAsStarted
    <2>1. /\ started # None /\ <<dialed.port, dialed.address>> \in Asked
          /\ started.line \in StartLines
          /\ started.ports = ParseAllowedPorts(started.line.ports) /\ started.ports # {}
          /\ dialed.permitted <=>
                /\ dialed.port \in started.ports
                /\ started.line.allowPrivate \/ IsPublicAddress(dialed.address)
      BY DEF IInv, PortsRead
    <2>2. /\ started.line.ports \in Seq(PortNumbers)
          /\ started.ports = {started.line.ports[i] : i \in 1..Len(started.line.ports)}
      BY <2>1, PortsParsed, QiankuiRelayAssumption
    <2>3. dialed.address \in Addresses
      BY <2>1, QiankuiRelayAssumption
    <2>4. IsPublicAddress(dialed.address) <=> Outside(dialed.address)
      BY <2>3, PublicIsOutside
    <2>5. QED
      BY <2>1, <2>2, <2>4
  <1>2. QED
    BY <1>1, Invariance, PTL
=============================================================================
