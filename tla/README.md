# Verification of Qiankui in TLA+

Qiankui (潜逵) is a SOCKS5 client and a TLS relay: an application speaks SOCKS5
to the client on its own machine, the client asks the relay over TLS for a
connection with HTTP `CONNECT` and a bearer token, and the relay connects to
the destination if its policy permits. This directory models that path, the
two commands with their options and files, the client's self-update, the
release workflow that feeds it and the rotation of the relays' token as TLA+
modules, checks them with TLC, and proves the most important results with TLAPS
for every value of the constants. Paths and line numbers are those of the repository.

## The system

| Part | Source | State it keeps | Operations | Modules |
|---|---|---|---|---|
| Jing, the SOCKS5 listener | `src/socks5.rs` | one task per connection | `serve`, `handle_client`, `negotiate`, `send_reply` | `Jing`, `App` |
| Shutu, the transport | `src/shutu/http_connect.rs` | TLS configuration, token; per `open` a stream | `open` | `Shutu` |
| Zhiyou, the relay | `src/zhiyou.rs` | one task per connection | `serve`, `handle_connection`, `respond_and_close` | `Zhiyou`, `Links`, `Destination` |
| Fujie, policy and token | `src/fujie/` | ports, filter, limit; the token | `dial`, `is_public_address`, `Token::parse`, `verify_bearer` | `Fujie`, `Zhiyou`, `PublicAddress`, `Token` |
| Target | `src/lib.rs` | none | `new`, `authority`, `parse_authority` | `Target` |
| Head reader | `src/http_head.rs` | none | `read_header` | inside `Zhiyou`, `Shutu` |
| Tongliu, the bridge | `src/tongliu.rs` | two directions, their buffers | `bridge` | `Tongliu`, `Wire` |
| Jiandu, the configuration | `src/jiandu.rs` | one file, temporary files | `save`, `load` | `Jiandu` |
| Gengxin, the updater | `src/gengxin.rs` | the client's own executable | `update` | `Gengxin` |
| Client command | `src/bin/qiankui.rs` | the stored settings | `config init`, `run` | `Qiankui`, `Jing` |
| Relay command | `src/bin/qiankui-relay.rs` | ports, token, certificate of the process | start, `run` | `QiankuiRelay`, `Zhiyou` |
| Shutdown signal | `src/runtime.rs` | none | `shutdown_signal` | `Jing`, `Zhiyou` |
| Service manager | `deploy/qiankui-relay.service` | is the relay up | restart on failure | `Zhiyou` |
| Azure scripts | `deploy/azure/` | the vault's token, each region's app | `rotate-token.sh`, parts of the others | `TokenRotation` |
| Release workflow | `.github/workflows/release.yml` | releases, drafts, the tap | one run per tag | `ReleaseFlow` |
| Deployment workflow | `.github/workflows/deploy-azure.yml` | revisions of an app | a new revision | `TokenRotation` |

How they interact. An application's TCP connection becomes a task of Jing. The
task reads the request field by field and calls `open` of Shutu, which connects
to the relay, verifies its certificate, writes one head and reads one answer. On
200 the stream goes back to Jing, which tells the application and runs a bridge
between the two. At the relay, the TLS connection becomes a task of Zhiyou: it
reads a head, checks its form, token, authority and port, resolves the name,
filters the addresses, tries them in turn, answers, and runs a bridge between
the TLS stream and the destination's socket. Nothing is shared between tasks but
constants; tasks interact through their connections, and end together when the
process does. Around this path, `config init` and `run` share a file, `update`
replaces the client with what the release workflow published, and the token
that both programs must hold goes from a vault to the regions' relays and to the
clients' configurations by scripts that run at different times.

What is hard here. Data arrives before the party that must read it is ready
for it (a client's payload behind its head, a destination's first words with
the answer) and stays in a `BufReader`. Two bridges in a row must keep order,
ends and cuts apart in both directions. Six limits expire while late answers are
under way. A task's return drops streams, and how a dropped stream looks to its
peer depends on what was written, read and shut down before. Processes end at
any await. Two `config init` and two `update` share files without a lock. Settings come
from four places and are read by rules that differ in what they trim, and paths
are read from other directories than they were given in. A rotation restarts
regions one by one while deployments go on; a release is built, uploaded and
published by runs that may stop anywhere and be started again.
`PROJECT.json` lists each such hazard at its line, with the properties aimed at
it, or why there is none.

What makes each part correct:

- Jing: an application gets at most one method and one reply, the reply is true,
  it is asked for what it asked, and its payload is not touched.
- Shutu: the token goes only to a verified server; a failed `open` leaves nothing.
- Zhiyou: a connection is tried only for an admitted head and a permitted
  address; the status is true; only payload enters the bridge; no connection
  outlives its task.
- Tongliu: in order, without a gap, bounded; an end is passed on only behind the
  last byte and a cut never as an end; one failing direction ends both.
- Client and relay together: "connected" means connected to what was named; a
  refused application's payload goes nowhere; tunnels come down when they should.
- Jiandu, Gengxin: their file is replaced atomically, by what it should be.
- The commands: what `config init` accepts, `run` uses; a client and a relay
  given one token accept each other; the relay dials what its options say.
- The scripts: after a rotation that succeeded, the regions it was for serve the
  clients configured with it.
- The release: what is published is whole and what the tap names is there.

## Modules

```
Wire ── Tongliu ─────────────┐                    AtomicFile
  │                          │                     │      │
  ├─ Target ─ Fujie ─ Links ─┤                  Jiandu  Gengxin
  │    Destination ──────────┼─ Zhiyou ─ RelayAlone
  └─ App ─ Shutu ────────────┴─ Jing ─── ClientAlone
                               Jing + Zhiyou = Tunnel ── implements ── Proxy

Token ─┬─ Qiankui ───────────┬─ Commands          TokenRotation
       └─ QiankuiRelay ──────┘                    ReleaseFlow
            PublicAddress ─┘
```

**Wire** is one direction of a connection: items written and not yet read, how
the writer left it (open, clean end, cut), whether the reader has dropped it. An
item is what the programs read or write whole: a SOCKS field, a TLS flight, an
HTTP head, a piece of payload. Dropping a TCP stream gives an orderly end, or a
reset when input is unread or may still come; a reset may overtake what was
written. A dropped TLS stream that was not shut down is cut, never ended, which
is what rustls reports (`UnexpectedEof` without `close_notify`). A write to a
reader that is gone may fail or may seem to succeed.

**Tongliu** is tokio's `copy_bidirectional` as `bridge` uses it: per direction
copy, shut at the end of input, fail on a broken input or a write that cannot go
through. `Cap` bounds what an output may hold before a write waits.

**Target, Fujie, Links** are the data: a host is a model value with a form
(name, IPv6 literal, bracketed literal, with colons, invalid, foreign), which is
what `authority` and `parse_authority` branch on; a head is what `parse_request`
makes of it; public addresses and resolver answers are parameters.

**Zhiyou, Shutu, Jing** are the tasks. A task's program counter (`zpc`, `opc`,
`jpc`) says which await it waits at, and an action runs from one await to the
next, so it holds everything the code does in between, the drops at a return
included. The limit of an await is a failure that may happen at any moment the
task waits there. Histories (`dialed`, `answer`, `asked`, what the ends have
read) are written by actions and read by properties only.

**App, Destination** are the outside parties. An application may send its
fields and payload early, all at once or not at all, end, or vanish; a
destination may send, finish, stop reading or reset.

**RelayAlone, ClientAlone** close one program with any peer: RelayAlone with
clients that send any head and any payload at any time or vanish; ClientAlone
with a server of any certificate that answers anything. **Tunnel** composes both
programs on one link that may break, with both processes that may end, and a
relay that is started again after a failure.

**Proxy** is the abstract specification of a connection as its two ends see it:
the application sends items, is told a verdict and then the destination's items,
and the destination reads the application's items; a connection is refused only
if the destination has read nothing, and nothing is read after a refusal. Tunnel
is shown to implement it (`ImplementsProxy == AsProxy!Spec`): `sent`, `read` and
`hostSent` are what the application has sent, the destination read and the
destination sent, and `told` is what the application has read with the method
left out, 0 for the reply "connected" and -1 for any other reply or method. All
of SOCKS, TLS, heads, limits, breaks and processes maps to stuttering.

**AtomicFile** is the abstract specification of a file that is replaced
atomically: at every moment absent or one complete content, and a power loss
may at most undo replacements. **Jiandu** is `config init` and the loading of
the configuration, call by call; **Gengxin** is `update` from the manifest to
the rename. Both have any number of processes, each of which may be killed
between any two calls, and power losses, after which what was not synced is
partial and what a name was given since the last loss may be undone, in any
combination: a replacement of the file, and the making, removal or renaming away
of a temporary file, for `save` syncs no directory and `update` only tries to
(`src/gengxin.rs:282-284`). A failing call removes the temporary file, and the
removal may fail itself, which both programs ignore (`src/jiandu.rs:84-86`; the
drop of the temporary path in `install_candidate`). Both are shown to implement AtomicFile
(`ReplacedAtomically == Atomic!Spec`; the refinement maps `file` and `past` to
themselves and the complete contents to `Contents`).

**Qiankui** is the client's commands over their settings: options, environment,
standard input, the stored configuration, CA files and the directory a command
is called in. `ConfigInit` and `Run` are each a whole command, for interleaved
ones are Jiandu's matter; the user may edit the configuration and change files
in between. A run ends with the binding of its address (`Started`,
`src/bin/qiankui.rs:239-241`): which of the texts that `validate` takes can be
bound is the environment's (`bindable`) and may change at any time
(`ChangeAddress`); a text that is no address at all is one that stays out of it.
**QiankuiRelay** is the start of the relay and the policy it then
has, with **PublicAddress**, the network tables of `policy.rs` over octets and
16-bit segments, and **Token**, what a token is as text. **Commands** has both, for
what one side sends must be what the other compares. A command's
settings come in layers, each of which covers what is below it (`Over`); the
command lines, words, names and directories there are is left to constants, so
that the proofs hold for any.

**TokenRotation** is `rotate-token.sh` step by step, for any number of operators,
over a vault and the regions' apps, with bootstraps, deployments, replicas that
start again and clients that are configured between any two steps.
**ReleaseFlow** is `release.yml` step by step: the runs of one tag wait for each
other, those of several tags do not, any step may fail, and a tag may be run
again. GitHub, the vault and the platform are modelled from how the scripts use
them (see "Abstractions").

The modules whose names end in **Proofs** hold the theorems about the module
they are named after (**WireProofs**: lemmas about Wire, for the three of the
connection; **DeployProofs**: TokenRotation and ReleaseFlow, which share nothing
but have one module for both).

`map` in `PROJECT.json` names the source lines of every definition. A comment
that begins "Bug:" stands before the mutated form of the definition that
follows it; those forms are used by the mutants only.

## Runs

| Run | Question | Bounds | Distinct states |
|---|---|---|---|
| `relay` | whom the relay serves, where it connects, what it does with a tunnel | 1 connection, 8 heads, 4 hosts, 3 addresses, answers that mix private and public, 2 items each way, buffers of 1 | 113 k |
| `relay_pair` | two connections and a process that ends or restarts | 2 connections (symmetric), private addresses allowed | 622 k |
| `client` | every kind of SOCKS request, any server; a client's tunnel, pipelined or not | 1 connection, 10 requests, 2 certificates, 2 items each way | 359 k |
| `tunnel` | that both programs together are a proxy; what "connected" and an end of stream mean end to end | 3 requests, 3 hosts, 2 items up, 1 down, buffers of 1 | 549 k |
| `tunnel_live` | progress and the end of tunnels | 1 item, in either direction | 60 k |
| `jiandu_save` | the configuration, and the token in temporary files, under failures, kills and power losses | 3 savers, 2 of one process id, 1 loader | 166 k |
| `jiandu_race` | savers without `--force` (violated) | 2 savers | |
| `gengxin_update` | what is installed and said, who downgrades | 3 updaters, 5 releases, two of them faulty | 1055 k |
| `gengxin_race` | no downgrade, two at once (violated) | 2 updaters, 5 releases | |
| `commands` | what `config init` and `run` make of settings, which tokens meet, which ports and addresses are dialled | 8 command lines, 3 environments, 2 directories, 3 configurations by hand, 2 listen addresses that come and go; 33 command lines and 4 environments of the relay, 3 ports, every end of every reserved range | 44 k |
| `token_rotation` | whom a rotation that reported success can still leave out | 2 operators (symmetric), 2 regions and an unknown one, 2 revisions per app | 867 k |
| `release` | what the tap and a published release hold after failures and reruns | 2 tags (symmetric), 2 kinds of assets, 5 runs over both | 1569 k |

Why these bounds are enough. Tasks share nothing, so one connection shows what a
task does and two show what the process does to tasks at different stages. Two
items with buffers of one make every buffer full with something behind it, and
make a lost, repeated or reordered item visible; through both bridges at once
one item down is enough to find one lost or ahead of an end. The heads and requests contain
each way of failing each check once, and the good one. Three addresses in one
answer put a filtered, a failing and a later good address in every order that
matters. Three savers with two process ids let one start after another of its
id was killed while a third runs; three updaters let one lag behind two releases.
Releases three and four are wrong in the two ways the updater checks for: not
for this target, and printing another version. `tunnel` keeps one way for
each process to end (the client by a signal, the relay by a failure, after which
it is started again): to its tasks both ways are the same, as `relay_pair` and
`client`, which have both, show of each program alone.

In `commands` the addresses are the first and last of each of the 14 IPv4 and 37
IPv6 ranges that the tables reserve, with the address before and the one behind:
a wrong prefix length or octet moves one of them. The ranges in the property are
written as first and last address, not as prefixes. The relay is started and
asked before the client's first step, for no step of one reads what the other
writes. Two revisions let one replace the revision a script has looked up, and
two operators let the older token be set last. Five runs for two tags are enough
for a run that stops half way, one that does not see the release that is there,
and one that takes up what was left, beside a run of the other tag that holds a
clone of the tap.

Deadlock is not checked (`CHECK_DEADLOCK FALSE`) where a system may stop: when
every connection is over, every process has ended, nobody sends anything more,
or all releases are made. It is checked in `commands` and `token_rotation`,
which never stop.

Fairness. `Spec` of the connection modules assumes weak fairness of each task's
next step: the runtime polls a task that can go on, a limit expires, and the
resolver answers. Nothing is assumed of applications, clients, servers,
destinations or the network. `OneWaySpec` (`tunnel_live`) adds that the two ends
read what arrives; without it a full buffer may wait for ever, as it does in the
code, which sets no idle limit. To stay within reach of a liveness check it leaves out behaviours
with payload in both directions, and those in which the application, the network
or a process ends before the application has been answered; that a full
direction does not hold up the other one is `Forwards` of the `relay` run, and
that nothing stays in the phases before the bridge is `Settles` of `relay` and
`client`. Jiandu, Gengxin, Commands, TokenRotation and ReleaseFlow make no
liveness claim: every step of theirs may fail for good.

### What the properties around the tunnel say

`ImplementsProxy` (`tunnel`), read against `Proxy`: an application gets one
verdict, then payload in order without a gap, and a destination reads the
application's items in order and nothing else; an application that has been
refused was never read and never will be, although the relay may connect after
the client has stopped waiting. `EndMeansEnd` and `ConnectedAsAsked` say what
Proxy does not: that an end is an end, and which destination it is.

`InitMeansRuns` relates two commands: a relative CA path, a source that the merge
skips or a default that is not stored would show only in the second. It names the
two things that may keep the second from starting: the CA file, and the listen
address, which `config init` does not try to bind. `TokensMeet`
relates both programs: a line end is trimmed on some of the ways a token takes
from a file or a shell to the comparison and not on others. So the texts that
tokens were given as are kept (`storedText`, `usedText`, `started.text`), and what one
program has made of a text must be what the other makes of it on a way that
trims: the text that configured a client starts a relay, the text that started a
relay configures a client, and what runs understands each other exactly when the
words were one. `DialsAsStarted` checks the filter
against ranges.

`TokenLeftOnlyByFailure` and `StagedOnlyByInstall` say when a temporary file may
outlive the process that wrote it. That it never does would be more than the code
does: its removal may fail, and a power loss may give its name back. They say
that there is no other way: whoever reports success has left nothing, unless the
power then fails, and who fails has left something only where the removal failed
too.

`RefusedOnlyUnrotated` says which clients a rotation leaves behind: a region
refuses the vault's token only while the rotation is under way, if it failed,
did not select the region (`--region`), or was started beside another one. The
last is real: two operators at once may leave the older token in a region, and
both scripts report success. That the secret is set before the revision is looked
up and restarted is what makes a deployment in between harmless.

`TapServes` and `PublishedWhole` (`release`) hold with the exceptions they name:
a run that took a failing `gh release view` for "no release" (`release.yml:54`)
builds and packages a tag again, and a draft left half uploaded is taken for
whole by the next run (`release.yml:174`).

Every property has a mutant in `PROJECT.json`: a plausible bug in one mapped
definition that TLC finds to violate the property in the same run.

### What the two violated runs show

`jiandu_race`: `save` looks for the configuration (`src/jiandu.rs:45`) and
renames over it some calls later (line 79). Two `config init` without `--force`
that both find none both succeed, and the second replaces what the first
reported as written, contrary to line 47 ("already exists; pass --force to
replace it"). Creating the final name exclusively would close the window.

`gengxin_race`: `update` compares the manifest's version with the version it was
compiled with (`src/gengxin.rs:72`) and then downloads and renames. An updater
that has read the manifest of release 2 while release 5 is published and
installed by another updater puts release 2 back, although `README.md:126` says
that `update` installs a newer client. `OlderOnlyWhenOvertaken`, which
`gengxin_update` checks and `NeverOlderUnlessOvertaken` proves, shows that this
is the only way: only an updater during whose run another one has installed can
put an older client in place.

## Proofs

TLAPS proves these for any number of connections, hosts, addresses, ports,
applications, operators, regions, tags, savers, updaters and releases, any
command line, token, configuration and directory, and any bound, under the assumptions
the modules name (`TargetAssumption`, `RelayAloneAssumption`,
`ClientAloneAssumption`, `QiankuiAssumption`, `JianduAssumption` and the like:
constants are of their types, `None` is none of the values; TLC evaluates them
in every run).

| Theorem | Module | Says |
|---|---|---|
| `EgressSafe` | `RelayAloneProofs` | an address is tried only for a well-formed head with the token, on an allowed port, out of the one answer for the host that was asked for, and only if the policy permits it |
| `TargetTraced` | | the target is taken once from the client's one head, the addresses from one answer |
| `OnlyPayloadBehindTheHead` | | only payload is ever behind a head, so no head and no token reaches a destination |
| `StatusesTellTheTruth` | | 200 only with a connection to an address that was tried, 502 only without one, 400, 401 and 403 only when none was tried |
| `AnswersHaveOneForm` | | the client is told a handshake, one status, and behind a 200 the destination's payload in order and without a gap |
| `UploadsArriveInOrder` | | the destination is given the client's payload in order and without a gap |
| `CleanEndsAreComplete` | | a clean end is passed on only behind everything before it |
| `NothingLeaks` | | a task that has ended has closed both its sockets |
| `Accounting` | | the invariant behind these five |
| `TypeCorrect` | | types, and buffers within their bound |
| `TokenStaysGuarded` | `ClientAloneProofs` | the head, and the token in it, goes only to a server the configuration trusts |
| `AsksWhatItWasAsked` | | the server is contacted only for a whole, acceptable request, and asked once and for its destination |
| `RepliesTellTheTruth` | | success only behind a 200, "refused" only when `open` failed, any other error only when the server was never contacted |
| `RepliesHaveOneForm` | | one method and one reply, and behind a success payload in order and without a gap |
| `UploadsArriveInOrder` | | the server is given the handshake, one head, and the application's payload in order and without a gap |
| `NothingLeaks` | | a task that has ended holds no socket |
| `TypeCorrect` | | types, and buffers within their bound |
| `AuthorityRoundTrip` | | what the client writes as an authority is read back by the relay as the same target for a name or an IP literal, and never as another host |
| `ImplementsProxyHolds` | `TunnelProofs` | client and relay together implement Proxy: every step of theirs is a step of it or a stutter |
| `ConnectedAsAskedHolds` | | "connected" means a connection to a permitted address of the host, on the port, that was asked for |
| `EndMeansEndHolds` | | while both bridges run, an end that comes out was put in, behind payload that has all come out |
| `Invariance` | | the invariant behind these three |
| `TokensMeetAlways` | `CommandsProofs` | the text that configured a client starts a relay with its token and the other way round, and a client and a relay that run understand each other exactly when their texts are of one word |
| `InitMeansRunsAlways` | | what `config init` accepted, a later `qiankui` uses whole, or refuses to start for its CA file or because its address cannot be bound |
| `DialsAsStartedAlways` | | the relay dials the ports it was started with, and the addresses outside the reserved ranges, for all addresses |
| `TypeCorrect` | | the types of both commands |
| `SaveIsAtomic` | `JianduProofs` | saving implements AtomicFile |
| `AlwaysReadable`, `OwnFile`, `LeftOnlyByFailure` | | the three invariants of `jiandu_save` |
| `UpdateIsAtomic` | `GengxinProofs` | updating implements AtomicFile |
| `InstalledIsAuthentic`, `UserToldTruly`, `StagedOnlyAsked` | | what is installed, said and left on the disk, as in `gengxin_update` |
| `NeverOlderUnlessOvertaken` | | no downgrade but by an updater that was overtaken by another |
| `RotationServes` | `DeployProofs` | whom a rotation that succeeded can leave out: only whom it did not select, or whom another rotation beside it reached later |
| `TapServesAlways`, `PublishedWholeAlways` | | the two invariants of `release` |

The relay. `Egress` is not inductive: it speaks of the head a client sent, which
the relay has by the time it dials long taken apart. The invariant is
`TypeOK /\ PayloadOnly /\ Provenance /\ Egress`. `Provenance` follows the chain
from the head on the link to the target, the answer and the address being
tried. `PayloadOnly` counts the handshake items the task still waits for against
those the client has sent, which says that what lies behind them is payload;
types need it, because the bridge copies what it finds to a link that carries
payload only. `TargetTraced` is `Provenance` itself, a part of the invariant that
no run lists; `Egress` rests on it. `WireProofs` has the lemmas about the operations on a wire; the
step lemmas (`TypeStep`, `PayloadStep`, `EgressStep`) have one case per action.

What the relay has told and handed on needs a second invariant, `Accounts`, that
rests on the first. It says of each connection, by the place of its task, what
every wire holds: `Linked` counts the client's items against those the task has
read, `Outbound` says when the outbound socket is there and which of its
directions is shut, `Answering` and `Numbered` say what a wire holds as the
continuation of what its reader has already been given, and `Truthful` carries
what the dial has found to the status. The properties speak of what was
read or may still be read; the invariant has to say what is still in front of the
bridge too, and that as long as the end behind the bridge is there nothing was
lost, which is what makes a clean end complete. Where a reader is gone only "no
more than was sent" is left of it, so each part has its condition. `AccountsSuffice`
draws the five properties from it.

The client. `IInv` of `ClientAloneProofs` is of the same kind, for a task that
passes through three programs: the negotiation, `open` and the bridge. `Script`,
`Request`, `Reply` and `Success` are what an application says, the client says
to the server, the server says and the client says to the application, by place;
a wire `Flows` if it holds the text from the place its reader has reached to the
one its writer has. `Plugged` and `Dialed` follow the two connections through
the life of the task, `Negotiated` says what the fields read so far were,
`Uploads` and `Downloads` connect the wires on both sides of the task. The
application's answers are in one of three forms, `Succeeds`, `Refused` and
`Failed`, and `opc` tells which: from this follow both what replies mean
(`ReplyTruth`) and their grammar. A step of one task changes its own connection
only (`OneSteps`), so each action has a lemma that speaks of one connection, and
only the end of the process (`ProcessEnds`) speaks of all.

Both together. `IInv` of `TunnelProofs` is, for each connection, `Coherent`: on
one link stand two programs that know nothing of each other's place, so what the
invariants above said of any server or any client is here said of both tasks at
once. Four texts flow, by place: `Script` and `Request` up, `Response` and
`Success` down, and payload behind each. How far each has come is counted from the
far end: `Given` is what the destination has or will be given, `RelayRead` and
`Sent` what the relay has read and the client has sent, `Taken` what the client has
read of the application; `Heard` and `Answer` the same of the way back. `Spoken`,
`Forwarded`, `Delivers`, `HostSpoken` and `Returned` say, wire by wire, that what
is on it goes on with its text from where its reader has come to, and how far it
reaches; a clean end stands only behind all of it. Once a reader is gone, what is
left for it counts no more, so each has the condition that somebody may still pass
it on (`HearsApp`, `HearsLink`, `HearsBack`). `Plugged`, `Dialed` and `Served` tie
the places of the three tasks to the wires: while the client waits for a status
the relay may be at any of its awaits, may have ended, and may already have
connected for a client that has given up. `Reached` carries the request from the
link to the address the relay is connected to: a 200 that may still be read says
that it is an address of the host the application asked for (`Linked`). Two parts are there
for the refinement. `Verdicts`: what an application has been or will be answered
is the start of a success, or one refusal and then nothing. `Quiet`: until the
client's bridge runs, and after a refusal, no payload is on the link or beyond it,
although the application may have sent it all; without it a refusal could not be
a step of Proxy, which allows it only when nothing was read.

An action changes the variables of one connection (`Movable`, `Changes`), so its
lemma speaks of one connection, of values instead of functions, and
`StillCoherent` says the rest. Only the end of a process (`ClientExit`, `RelayExit`)
changes several connections, and leaves each of them as if its task alone had
ended. In the refinement an application that reads is a
step of Proxy or a stutter by what it reads (`ReadOn`); a destination that reads
is `Read`, with the item it reads the next one by `Delivers` and no refusal by
`Quiet`; all steps of the two programs, the network and the processes stutter.

The commands. For `InitMeansRuns` the invariant says what `config init` has
established when it succeeds (`Accepted`): every field the merge or the transport
may refuse is there and good, and its CA path absolute, so that a run from any
directory reads the same file. For `TokensMeet` every token that is stored, used
or started with was read from the text it was given as, that is, is this text or
this text trimmed (`TokensRead`), and one that is in use has parsed: `TextRead`
shows that every way that trims then reads that text as the same token. For
`DialsAsStarted` TLC compares the tables with the ranges at the ends of each; the
proof compares them everywhere: an address is outside a network of so many fixed
bits exactly when it is before the first or behind the last address of the range
(`Before4`, `Before8`, `Networks6`), and an IPv4 address inside an IPv6 one keeps
its order (`SameOrder`) and is apart from what is embedded otherwise
(`OtherEmbedding`).

The files. For Jiandu the invariant adds what each saver has done to its
temporary file by its next call (`Done`), whose a temporary file is, also one
that a power loss may give back, and why it is still there (`Owned`, `MayLeave`),
and that live savers differ in their ids (`OnePid`); a step of a saver either
leaves temporary files alone (`Walks`) or puts one content in one place (`Puts`). For Gengxin it adds what an updater has established when it makes its
next call and why its temporary file may still be there (`Established`,
`MayStay`), that the installed client and what a power loss may
give back are genuine, and that a running updater was started from the installed
client unless another one has installed since (`Abreast`).

The rotation. A script that wrote the vault's present version and has had no
other one beside it (`Undisturbed`) is alone; the regions behind it have been
given the vault's version and run it, and the one it is at has come as far as
the script has (`Halfway`). The middle step needs the disjunction that the
revision it has looked up is still the latest or that the one which replaced it
already started with the new secret: this is where setting the secret first
matters.

The release. `Whole` says which drafts and releases may lack an asset: what is
being filled by its own run, or was left by one that stopped. `One` says of a tag
none of whose runs overlooked its release that it has at most one, and that
what the run has in hand is that one: the hash in the tap is taken from it.
`Earlier` and `Filling` tell a run's own draft from older ones by its build.

The target. `AuthorityRoundTrip` has one case per class of a host. A name and an
IPv6 literal come back as they are, a host with colons does not come back at all,
and a bracketed literal comes back as what it holds, which is why
`ConnectedAsAsked` speaks of the host a request names.

TLC has checked the inductive invariants of the relay, the client, the tunnel,
Jiandu and Gengxin on the instances of their runs before they were proved.

Only model-checked: what is temporal beyond invariance and refinement (`Settles`,
`Forwards`, `TruncationEnds`, `Arrives`, `FinishedEnds`, `EndTogether`): liveness
under fairness and `ENABLED` are out of the prover's reach. The proofs are of the
safety part of each specification; fairness is in the runs only. Every other
property of a passing run is proved.

## Abstractions, and what is not modelled

- Heads, fields and payload are items; a partial item is one that has not come
  yet. `read_header` line by line and its 16 KiB limit are left out: a head that
  is too long is one that is not well-formed, to every other part.
- Hosts are classes: which characters an authority or a name may hold, and the
  scheme of an `Authorization` value, are inside `wellFormed`, `Form` and
  `Bearers`. Of a token's word only its length and characters count.
- Of the configuration's fields only those are kept that a check reads; TOML, the
  private permissions of the file and the texts of errors are left out. `config
  show` and `config path` print and change nothing.
- Of the updater, the manifest's single fields (`Manifest::validate`) and the
  limits on sizes are one verdict each.
- Saving on Windows removes the old file first (`src/jiandu.rs:75-78`) and is
  not modelled; the mutant of `FoundMeansReadable` shows what it would cost.
- A dropped plain TCP stream may end or reset; what an application or a
  destination concludes from it is theirs (see the hazard at `src/zhiyou.rs:130`).
- Memory, file descriptors and other limits of the host are not modelled, except
  that `accept` may fail and end the process.
- Signatures and hashes are perfect: what verifies was signed, what matches is
  the same.
- GitHub, as `release.yml` uses it: a tag has one published release for good,
  but may have several drafts when a run did not see the first one; an edit or a
  download by the tag may take any of them. Attestation and the checks of a
  published release may fail and do nothing else.
- Azure, as the scripts use it: a command's effect is there when it returns; an
  app that names no version of the token may get the latest one at any time; a
  restart of a revision that has been replaced does nothing. Whether a script
  waits for the replica it restarted or sees the one before is the platform's
  (the hazard at `rotate-token.sh:137`).
- Of `bootstrap.sh` and `configure-client.sh` only what they do to the token is
  modelled; networks, certificates, access rights and `configure-github.sh` are
  declarations or run once. Of the deployment workflow only the new revision.
- `ci.yml`, build files, containers and tests have no behaviour to model.

## State of the project

Modelled, checked and proved: the relay, the client, both together and as an
implementation of Proxy, the two commands, the configuration file, the updater,
the rotation of the token and the release workflow. What a change to the code
should come back to:

- A step that is added to a task (a new await, a limit on idle bridges, a limit
  on tasks) is an action of Zhiyou, Shutu, Jing or Tongliu. It needs its case in the
  step lemmas of RelayAloneProofs or ClientAloneProofs and of TunnelProofs; where
  it only ends a task, `Ended`, `AppLeft` and `LinkLeft` say what has to hold.
- If `config init` creates the file exclusively, or `update` compares with
  the installed client before its rename, the properties of `jiandu_race` and
  `gengxin_race` become invariants of the two passing runs.
- A new range in `policy.rs` goes into PublicAddress and into the ranges of
  `DialsAsStarted`, which are written down independently of each other.
