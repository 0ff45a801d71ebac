# A TLA+ model of remotefs-ssh

remotefs-ssh implements the `RemoteFs` trait of the `remotefs` crate twice over
an SSH session: `SftpFs` speaks SFTP, `ScpFs` runs shell commands and `scp`. The
modules here model what those clients do to a server and what they tell their
caller, TLC checks them on small instances, and TLAPS proves for every instance
all the safety properties that the passing runs check and both refinements.
Sources are named relative to the repository's own `src/`.

## 1. The system

| Component | Code | State | Operations |
|---|---|---|---|
| SFTP transfers | `ssh/sftp.rs` 470-565 | locals of one call: `transfer_size`, `bytes`, `delta`, the buffer; the two streams | `append_file`, `create_file`, `open_file` |
| SFTP client | `ssh/sftp.rs` 22-466 | `session`, `sftp`, `wrkdir` | 18 trait methods: one SFTP request each, a few with a `stat` first; `copy` and `exec` are shell commands |
| SCP client | `ssh/scp.rs` 28-640 | `session`, `wrkdir` | 17 trait methods, one to three (five for `setstat`) shell commands each |
| Shell command and status | `ssh/commons.rs` 306-381 | the text of one answer | `perform_shell_cmd`, `_with_rc`, `_at_with_rc` |
| Connection | `ssh/commons.rs` 21-301 | socket, session, agent | resolve, try addresses and attempts, set preferences, handshake, authenticate |
| Configuration | `ssh/config.rs` | none (a record computed from options and file) | precedence of options over file |
| `ls` parser, times | `ssh/scp.rs` 61-195, `utils/parser.rs`, `utils/fmt.rs` | none | one line to one entry, a time to a text and back |
| Options, streams, crate root, mock | `ssh/mod.rs`, `ssh/stream.rs`, `lib.rs`, `mock/` | none | builders, delegation |
| Server | not in the repository | a tree of directories, files, links | `test`, `ls`, `rm`, `rmdir`, `mkdir`, `ln`, `cp`, `mv`, `scp`, `chmod`, `chown`, `touch`; the SFTP requests |

How they interact: a client is a sequential object (every method takes
`&mut self`) that owns one SSH session. A method opens a channel per command,
sends it, and blocks until the channel ends. Nothing is shared between two
clients but the server, and the server's tree is where all of their steps meet.
The SCP client has no protocol answer but text: `cmd; echo $?` is read to its end
and the last line is the status. The SFTP client's transfers run two nested
loops over a reader and a writer, of which one is the caller's.

What is hard about it:

- *check, then act*: most methods first ask whether a path exists, in a command
  of its own; the tree may change before the next one;
- *masked errors*: the probe is read through `.ok().unwrap_or(false)`, which makes
  a transport error a "no"; a lookup that the server denies reads like a missing
  file, and a directory that `ls` may not list like an empty one;
- *lost answers*: a request that was carried out and whose answer did not arrive;
- *cut answers*: a text that ends early where no status tells (`ls`, `pwd`);
- *partial work*: short reads, short writes, `rm -r` and `cp -r` that stop half way,
  an attribute of several that cannot be set, a directory read entry by entry;
- *time*: UTC sent to a server with a time zone of its own, years left out;
- *termination*: loops that count to an announced length;
- *text*: an exit status recovered from the output of a shell;
- *stale state*: a working directory, or a session, that no longer exists;
- *sequences of fallbacks*: addresses in attempts, preferences of two sources set
  one over the other, agent before key before password.

What makes each component correct: the bytes at the destination are a prefix of
the source, and success accounts for all of them (transfers); a result is true
of the server at some moment of the call, a listing misses and invents nothing,
an error that claims nothing happened is right, and no request destroys what its
method is not meant to destroy (both clients); attributes are set in order, all
or up to the one that failed, no other attribute changes, and what was set is
read back (`setstat`, `stat`); the status and output handed up are those of the
command (shell status); a session is handed out only when authenticated, after
every alternative that comes first has been refused, and with the preferences
that have priority (connection).

## 2. Modules

| Module | What it is |
|---|---|
| `Transfer` | one call of `create_file`, `append_file` or `open_file` |
| `StreamCopy` | the abstract promise of a copy: the output grows along the source, a success moved all that was wanted |
| `TransferProofs` | theorems about `Transfer` |
| `RemoteTree` | the server's file system, shell utilities and SFTP requests (external) |
| `Calls` | a method as the sequence of requests it sends |
| `ScpFs` | the methods of `ScpFs`, in the terms of `Calls` |
| `SftpFs` | the methods of `SftpFs`, in the terms of `Calls` |
| `RemoteFsClients` | clients of either kind at work on one server |
| `RemoteFsContract` | the abstract contract with the caller: one act at most, told truly |
| `RemoteTreeProofs` | lemmas about `RemoteTree`: what each request keeps, loses and makes, and what one that succeeds has done |
| `RemoteFsProofs` | theorems about `RemoteFsClients` |
| `Calendar` | a small calendar with years, leap days and an epoch (external) |
| `Attributes` | `setstat` and `stat` of one file, by either client |
| `AttributesProofs`, `StatProofs` | theorems about `Attributes`: what `setstat` sets; what `stat` reads |
| `ShellStatus` | the exit status recovered from the text of an answer |
| `ShellStatusProofs` | theorems about `ShellStatus` |
| `Iteration` | induction over numbers in a form the provers take |
| `Connect` | one call of `commons::connect`, with `Config` |
| `ConnectProofs` | theorems about `Connect` |
| `MCTransfer`, `MCRemoteFs`, `MCAttributes`, `MCShellStatus`, `MCConnect` | values of the constants for TLC |

`RemoteFsClients` runs the methods of `ScpFs` and `SftpFs` on `RemoteTree`; `Attributes`
uses `Calls` and `Calendar`; `Transfer` implements `StreamCopy` and `RemoteFsClients`
implements `RemoteFsContract`. `Connect` is the
inside of what `RemoteFsClients` has as `ScpConnect`, `SftpConnect` and `ConnectFails`,
which keep of it that a client has a session or an error and its old state;
`Transfer` is the inside of what it has as the opening of a file.

### Transfer

`create_file`, `append_file` and `open_file` differ in how they open their ends;
the loops are the same lines three times. `pc` walks through *call*, *open* (only
`open_file`: between `stat` and `open`), *loop* (the outer `while`), *write* (the
inner one) and *done*. Each action is one call on a stream: `OpenSink`,
`StatSource`, `OpenSource`, `ReadChunk`, `WriteSlice`, each with a failing twin,
and `CountChunk` and `Finish` for what happens between them.
`metadata.size as usize` is `% UsizeMod`. A read returns any non-empty part of
what is left, up to the buffer, and nothing only at the end; a write takes any
part of what it is given and a failing one may still have reached the other side.
`SourceChanges` lets the source become shorter or longer at any moment, as a
remote file may under another client. A byte is the number of its position in
the source, so that a lost, repeated or swapped byte shows; old content is 0.

### RemoteTree, Calls, ScpFs, SftpFs and RemoteFsClients

A tree is a function from all paths up to `MaxDepth` to *none*, *dir*, *file* or
*link*. Resolution follows links component by component and gives up after
`MaxLinks` of them: only links are counted, as the kernel does (ELOOP). A request is
an operator that returns the set of its outcomes: its success, a refusal it may always meet
(permissions), and the states in which `rm -rf` and `cp -rf` can stop half way. A
lookup (`test`, `cd`, `ls`, `stat`, `readdir`, `readlink`) may be refused as well,
whatever is there. Where `cp` or `mv` would meet an entry of another kind the model
takes the refusal, which both utilities answer in almost all of these cases; what
is not modelled there is `cp -f` unlinking a file it cannot open. SFTP's `rename`
asks for the overwriting form and moves to the very path, where `mv` moves into a
directory; its `create` follows a link and makes the file the link names.

`ScpFs` and `SftpFs` are pure: each method is an operator of the method's name that
gives the requests it sends as a sequence of steps, and a step says what the
method returns when the server did it, when it refused and when the transport
failed, or that it goes on. The masked probes are `Must` and `MustNot`. This is
where the two clients differ, line by line as the two files do: which probes there
are, which error each failure becomes, which errors are told apart at all.

`RemoteFsClients` runs them. `Invoke` is the head of a method (the check of the
session, or of the subsystem where the code asks `self.sftp`, and `absolutize`);
`Serve` is the server running one request; `Take` is the `match` on the answer:
`Noted` keeps what it adds to the call, `Verdict` picks the arm, `Proceed` and
`Finish` go on or return. `Unsent` is a request that is not sent, `Lost` an answer
lost after the request was carried out, `Cut` a text without a status that ends
early, `LinkBreaks` the end of the transport, after which the session is still
there and `is_connected` still true, as in the code. The server's side of `ls` is
`Printed`: a line for each entry, of which those in `Marked` (entries with an ACL mark
or a security label, special files) show nothing that `LS_RE` matches. `Readable` is
the client's side: the lines that `parse_ls_output` takes, which are all that
`list_dir` of the SCP client keeps; `SaysNo` makes such a line of `ls -l` a missing
file in `stat`. A denied `ls -la` leaves an empty text, of which no status is asked, and
so an empty listing that is `Ok`. `list_dir` of the SFTP client
reads the names in one request and then each link in one of its own
(`make_fsentry`), and the tree may change between them. `connect`, `disconnect` and
the SCP client's `append` are actions of their own; `pwd` and `is_connected` only
read. `saw` is a history variable that no step reads: the arguments of the call,
whether its promise, the absence it may report or the presence it may report was
true at some moment of the call, which entries were in a directory always (those
the client can read, `Legible`) or ever during it, and whether the server denied a
lookup of what was there. The promise of a call (`Post`) is about the tree as it is; that of
`mov` is about the step that moves, from one tree to the next, and about the places
its paths led to before it: a move through links may leave both paths leading
elsewhere.

`RemoteFsContract` is what is left of a client when sessions, requests, answers,
probes and faults are taken away. A call is asked, acts, and is told *done*, *failed*
or *perhaps*. It changes the tree at most once, in one step, and only as its method is
entitled to. *Done* means that its promise was kept at some moment, and for the
methods of which only one of several calls can succeed (`Sole`: `create_dir`,
`remove_dir`, `symlink`, `remove_file` of the SFTP client and `mov` of the SCP client)
that the call itself did it. *Failed* means that it changed nothing; *perhaps* says
nothing. The mapping reads `asked` from `call`, `acted` and `kept` from the history
(`touched`, `post`), and `told` from `result`: `Meaning` takes `Ok` for *done*,
`ProtocolError`, the errors a lost answer may stand for (`Vague`) and those of a
request that stops half way (`Partial`) for *perhaps*, and all others for *failed*.

### Calendar and Attributes

One file with a mode, two ids, two times and a size, a server with a time zone and a
clock. `setstat` of the SCP client is a probe and one command per attribute
(`ScpSetstat`), of the SFTP client one packet (`SftpSetstat`), which carries ids and
times in pairs and always a size; a refused packet may have been carried out in part.
`stat` takes a line of `ls -l` through `parse_ls_output` and `parse_lstime`, or the
attributes of a packet through `make_fsentry`; the server may refuse either. `LsLine` is
the server's side: names for known ids, local time, the hour and minute for a recent
file and the year for others, the letter of the execute bit, and a form the client's
expression does not match for files with an ACL mark or of a special kind (`plain` is
false). A mode is its last execute bit and the special bit on it. `Calendar` replaces
the Gregorian one by years of three or four days, which have what matters: years, a day
that only some years have, times of day, and instants before the epoch. Its instants are
finer than seconds, and seconds than minutes: `fmt_time_utc` gives `touch` whole
seconds, `LsLine` shows whole minutes of the server's clock, and a packet (`OnWire`) has
whole seconds modulo its width. `Removed` is another user, `Tick` the clock.

### ShellStatus

Strings are sequences of bytes, of which the code tells apart digits, line feed,
other white space, the two bytes of a wider character and the rest. The channel
delivers `output`, `status` and a line feed one byte at a time and may end
anywhere. `perform_shell_cmd_with_rc` is a function of what arrived; it takes the
index of the last line feed of the *trimmed* text and cuts the *untrimmed* one
with it, and so does the model, panic on the middle of a character included. A
status of more than 32 bits and a leading `+` are left out.

### Connect

`opts`, `file` and `identities` are what the caller, the configuration file and the
agent hold; they do not change. The `resolve_*` functions of `Config` are operators
of the same names. `pc` walks through *start* (read the file), *resolve*, *dial*,
*session*, *prefs*, *agent*, *identities*, *auth*, *keys* and *done*.

- Dialing: `attempt` and `nth` are the counters of the two `for` loops. `DialFails`
  and `DialSucceeds` are one `tcp_connect`, `NextAttempt` the end of the inner
  loop, `GiveUp` the end of the outer one, and `dialed` is the history.
- Preferences: `Wishes` is the list of `method_pref` calls that `set_algo_prefs`
  would make, those of the file in their fixed order and then those of the options.
  `PrefAccepted` and `PrefRejected` are one call each; libssh2 (external) accepts a
  list of which it supports something. A value is a whole list.
- Authentication: `IdentityAccepted`, `IdentityRejected`, `KeyAccepted`,
  `KeyRejected` and `Password` each offer a credential (`offered` is the history);
  `SkipIdentity`, `AgentFails`, `IdentitiesExhausted`, `ChooseKeys` and
  `KeysExhausted` are the ways from one source to the next.

An option of the code is a sequence of at most one element. Left out: compression,
the passphrase of a key file (the password; a wrong one is a rejected key), the
text of the address, and `agent.disconnect`, whose result is only logged.

## 3. Runs

| Run | Instance | Shows |
|---|---|---|
| `transfer` | buffer 3, sizes and lengths 0-5, old content 0-2, `usize` modulo 5, one change of the source, fairness | `TypeOK`, `SinkIsPrefix`, `OkCount`, `BoundedOvershoot`, `LoopInv`, `ImplementsCopy`, `ReturnsUnlessShort` |
| `transfer_short_reader` | readers up to 5, announced 5 | *violated*: `AlwaysReturns` |
| `remotefs_faults` | one client of either kind, two calls of any method on 4 arguments, 3 trees, files that `ls` shows in an unreadable line, any lookup denied, two faults, fairness | `TypeOK`, `OkIsDone`, `DefiniteErrors`, `HonestLookups`, `ListingFaithful`, `EffectsEntitled`, `CallsReturn` |
| `remotefs_races` | two clients of either kind, two calls on 2 arguments, 2 trees, any lookup denied, no fault | `OkIsDone`, `DefiniteErrors`, `HonestLookups`, `ListingFaithful`, `EffectsEntitled`, `ImplementsContract` |
| `scp_symlink_away` | a relative target, a link in another directory | *violated*: `SymlinkResolves` |
| `scp_exec_elsewhere` | a working directory removed or denied | *violated*: `ExecInWrkdir` |
| `attributes` | a `setstat` of any attributes and a `stat`, either by either client, two time zones, starts at the end of a year and on a leap day, days of two minutes of two seconds of two ticks, one fault | `TypeOK`, `SetInOrder`, `StatHonest`, `ReadsBack`, `OnlyAsked`, `NoFileFromNothing` |
| `attributes_new_year` | a file of last year's end, looked at in a new year | *violated*: `LsTimeIsRight` |
| `shell_status` | all outputs of up to 2 bytes and those of up to 4 that are text, 4 statuses, cut anywhere | `SuccessIsSuccess`, `NeatRoundTrip` |
| `shell_status_any` | the same | *violated*: `CollectsStatus` |
| `connect` | 108 options, 16 files, 3 agents, up to 2 addresses and 2 attempts, fairness | `TypeOK`, `OkIsAuthenticated`, `OffersInOrder`, `DialsInRounds`, `OptionsWin`, `DialingEnds` |
| `connect_overridden` | the same with one address | *violated*: `OnlyEffectivePrefsRefuse` |

Bounds and why they are enough. *Transfer*: two chunks and a rest (5 = 3 + 2) reach
every boundary of the two loops, sizes lie on both sides of the length of the source,
and 5 does not fit the `usize` of the instance; the theorems below remove these bounds
for everything but liveness. *RemoteFsClients*: two names and two levels give a
directory that is empty, one that is not, a file, a link to a directory and one that
leads nowhere, and (made by `symlink`) links to files and loops. The trees have a file
and a full directory, two directories of which one holds a third, and two links; the
races use one with an empty directory and that with the links. Files with the data of
`/a/a` have an unreadable line wherever they are, so one may be there, move or go during
a listing, next to readable entries. The arguments hold a relative path, a path under
another argument and the root. Two calls are what a race or a call after a fault takes;
two faults are a lost answer and a broken link, or both probes of a method. Of the calls
on the root the instance has those that a server might carry out, of calls that name one
path twice one `mov`, and the relative path is not given to every method, for all
resolve it in the same way. The races have fewer arguments still, one for lookups, and
every pair of kinds of client. The contract is checked there; that it is kept with
faults as well is proved. Clients are symmetric, and nothing in the trees or requests
names one; nor do the entries whose line cannot be read. Names have one character, so a
cut text holds a name whole or not at all. *Attributes*: three ticks are enough for a
change of day and of year to fall between any two steps; the times 55, 87 and 255 are
the last ticks of a minute and of a second, so that what is cut off shows, and the zones
are of a minute each way; each subset of the attributes is asked for once, and the times
lie before the epoch, in last year, and on a leap day; one does not fit the width of a
packet's time in the instance. *ShellStatus*: four bytes hold a white-space prefix, a
wide character and a line feed around it. *Connect*: two addresses and two attempts give
a second round, zero of each the empty loops; the options have a preference for a type
the file also has (`Kex`, twice in the options), for half of what one line of the file
sets (`CryptSc`), or none; the file's is supported or not; the agent holds nothing, one
identity or two of which one matches; the storage knows the host by the name given, by
the name in the file or not at all. The theorems of section 4 have none of these bounds.

Where runs end in violations, the code and what is said of it differ:

- a reader shorter than `metadata.size` makes `create_file` and `append_file` spin,
  and so does, in `open_file`, a remote file that became shorter after its `stat`;
  `std::io::copy`, which they replace (`ssh/sftp.rs` 468), stops at the end;
- a relative target is looked up from the working directory and resolved by the
  server from the directory of the link;
- `cd "wrkdir"; cmd` runs `cmd` in the login directory when `cd` fails, because the
  directory was removed or may not be entered;
- an output without a final line feed runs into the exit status;
- a preference of the configuration file of which libssh2 supports nothing makes
  `connect` fail with `ProtocolError` although the options, which have priority
  (`ssh/mod.rs` 91-100), give another for the same method.

- a time of `ls` without a year is given the current one, although `ls` leaves the
  year out of recent files, not of files of this year: in the first days of a year
  yesterday's files are reported almost a year in the future.

What the properties excuse, because the code does it and nothing says otherwise:

- a reader longer than `metadata.size` is cut and the transfer returns `Ok`
  (`OkCount` counts what was announced);
- a failed probe of the path, or a directory that appears after it, lets the SCP
  client's `symlink` go on to `ln -s`, which makes the link inside that directory:
  `OkIsDone` leaves this method out;
- a missing file that is there: `HonestLookups` excuses a lookup of the call that the
  server denied (`ssh/sftp.rs` 244-247, `ssh/scp.rs` 291), a transport fault in the masked
  probes and in every lookup of the SFTP client, a cut answer, and in `stat` of the SCP
  client a line that does not parse (`ssh/scp.rs` 357-360); `StatHonest` excuses the same;
- entries that are missing from an `Ok` listing: `ListingFaithful` promises those whose
  line can be read (`ssh/scp.rs` 321), and none when the listing was denied or cut;
- a time that is read back to the minute, or to the midnight before, by the SCP client,
  which sets it to the second (`ReadsBack`);
- `rm -rf` and `cp -rf` stop half way: `DefiniteErrors` leaves out the one error that
  stands for it in `remove_dir_all` and in `copy` (`Partial`), not the methods; and it
  lets a lost answer be called `FileCreateDenied` by the SCP client's `create` and by
  whatever error its last request has in the SFTP client;
- a text cut where no status tells: a link listed as a file, a working directory that is a parent of the right one;
- a gid without a uid, or a time before the epoch, that is silently not set
  (`Undertaken`), a size the SFTP client always sets, and a special bit without
  execute that `stat` reports as execute.

Fairness. `Transfer!FairSpec` says that a method which can take a step takes one: it is
sequential code without locks (every read and write returns; a spinning call is not a
blocked one). `RemoteFsClients!FairSpec` says that a client takes an answer it has, and
that a request sent over a link is answered or noticed to be lost. The second half is
the network's and not the code's: no timeout is set on the session after the TCP
connection, so a peer that goes silent without closing blocks a call for ever, and
`CallsReturn` holds only without such a peer. Nothing makes the caller call.
`Connect!FairSpec` lets run on what is local (reading the file, counting attempts) and,
when the timeout is not zero, dialing, which the timeout bounds; nothing is assumed of
name resolution, the handshake, the agent or the server, and nothing but the end of
dialing is promised. `ShellStatus` stops when the call has returned and `Attributes`
when calls and clock are used up, so their runs do not check for deadlock.

## 4. Proofs

All theorems are about `Spec`, without fairness, and rest on the named assumption of
the module that declares the constants, which gives them their types.

| Theorem | States | Module |
|---|---|---|
| `TransferInvariant` | `[]TransferInv` | `TransferProofs` |
| `TypeCorrect`, `SinkIntegrity`, `LoopCounters`, `SuccessAccounting`, `OvershootBounded` | `TypeOK`, `SinkIsPrefix`, `LoopInv`, `OkCount`, `BoundedOvershoot` | |
| `TransferRefinesCopy` | `ImplementsCopy` | |
| `ConnectInvariant` | `[]ConnectInv` | `ConnectProofs` |
| `TypeCorrect`, `AuthenticatedSession`, `PreferencesOfTheOptions` | `TypeOK`, `OkIsAuthenticated`, `OptionsWin` | |
| `RoundsOfDials`, `OrderOfOffers` | `DialsInRounds`, `OffersInOrder` | |
| `SetstatIsProbed` | `[]ProbedInv` | `AttributesProofs` |
| `AttributeTypes`, `AppliedInOrder` | `TypeOK`, `SetInOrder` | |
| `NothingFromNothing`, `NothingElseChanges` | `NoFileFromNothing`, `OnlyAsked` | |
| `HonestStat`, `TimeReadBack` | `StatHonest`, `ReadsBack` | `StatProofs` |
| `SilentStatus`, `NeatOutput` | `SuccessIsSuccess`, `NeatRoundTrip` | `ShellStatusProofs` |
| `RemoteTypes`, `ErrorsAreDefinite`, `LookupsAreHonest`, `ListingsAreFaithful` | `TypeOK`, `DefiniteErrors`, `HonestLookups`, `ListingFaithful` | `RemoteFsProofs` |
| `OkMeansDone` | `OkIsDone` | |
| `EffectsAreEntitled` | `EffectsEntitled` | |
| `ClientsKeepContract` | `ImplementsContract` | |

### Transfer

For every buffer length, width of `usize`, set of sizes, source lengths and number of
changes. `SinkIsPrefix` alone is not inductive, for a write appends whatever the
buffer holds from `delta` on. `LoopInv` says what is missing: inside a chunk the
buffer is exactly the source bytes after the first `bytes`, and the destination has
received `bytes + delta`, so the next byte written is the next byte of the source;
between chunks it has received `bytes`. When a call has failed none of this has to
hold any longer, so `DestinationInv`, the facts about the destination that outlive
the loop, goes along with it. `TransferInv` is the conjunction with `TypeOK`; each
action has a step in `NextInv`, with the three loop actions as lemmas of their own
(`ReadInv`, `WriteGrows`, `SinkKept`). The refinement maps the content of the
destination to `out` and the returned kind to `verdict`; with the invariant every
step extends `out` along the source, gives a verdict, or stutters.

### Connect

For all options, files, agents, numbers of addresses and algorithm values.
`ConnectInv` is `TypeOK` with three parts. `PhaseInv` says what each phase has done:
no preference before *prefs*, a handshake before any authentication, all wishes
granted when the handshake is made. `AuthInv` says that `authenticated` and
`ret = "Ok"` go together and that only the last credential of a success was
accepted. `PrefsInv` is what `OptionsWin` needs: at every moment the preference of a
type is that of the last wish for it among those granted so far (`Granted`). When
all are granted that is the last of the options, or of the file if the options
have none, because `Wishes` has the options last (`LastWishIsEffective`). The
actions are proved in groups by what they touch; each that offers a credential
goes through one lemma (`OfferInv`).

Two more invariants are inductive given this one. `DialInv` reads the number of dials
off the counters of the two loops, `attempt` whole rounds and `nth` addresses of the
present one, which the rounds of `DialsInRounds` are then a fact of arithmetic about.
`OrderInv` says, for each place of the search, which credentials have been offered:
those of the identities before `turn` that match, then the keys before it. The identities
that match are a recursive function; `Iteration` shows that such a definition has the
function it describes, from the well-foundedness of the numbers.

### Attributes

For every set of files, metadata, time zones and starts and every number of calls,
ticks and faults. Only `touch` makes a file where there is none (`OutcomeFacts`), only
the SCP client's `setstat` sends it (`OthersDoNotTouch`), and never as its first
request, which is the probe (`FirstIsProbe`). `ProbedInv` carries the rest: past the
probe, or with a good answer to it, the call has seen a file. That needs the half
step between the answer and its being taken, and that a bad answer to the probe, or
none, ends the call.

`AppliedInv` is what `SetInOrder` lacks: during a call the attributes set are those of
the steps before the present one, with those of the present one when its answer is
good and perhaps when it is lost. That the steps of `ScpSetstat` cover what it
undertakes, each rank in one step and in order, is `ScpSetstatRanked`.

For `stat`, `AnswerInv` says that a good answer shows a file the call has seen, at an
instant of the call, or that a bad one to a lookup of a file was denied, and `KeptInv`
that a file has the time last set as long as it is there. `ParsedTime` is the inversion
at the bottom of it: what `parse_lstime` makes of the line `LsLine` prints is the minute
on the server's clock, its midnight, or the epoch for a time before it, unless the line
has no year and the client's is another one. `MinuteOfDay` and `WireFacts` are the
arithmetic of cutting to units: the minute of the second that `touch` was given is that of
the time itself, in every time zone, for the zone cancels out; and a packet returns the
second it was given, up to its width. They hold for all lengths of second, minute and day
of which each divides the next (`CalendarAssumption`).

### ShellStatus

For every set of outputs, silent ones among them, and every set of statuses in
decimal without leading zeros, of any length. `SuccessIsSuccess` is about an output
that is empty; its invariant says that of any beginning of the digits of a status only
the whole of "0" is read as 0 (`CutStatus`, `SilentReply`). `NeatRoundTrip` follows the
two indices: the trimmed text and the untrimmed one have the same last line feed when
the output starts with ink and ends in a line feed (`NeatRead`). `Neat` asks that the
output is text as well (`ValidUtf8`), without which the whole answer would be refused.

### RemoteFsClients

For every number of clients, every tree and every set of requests, calls and faults,
and every limit of resolution; the names are finitely many. A property of this module
is about what one client can tell: its call, the answer to it, the result of the last
one and the history. The proofs are about these four, as constants `k`, `a`, `r` and
`w` with the kind of client `p`. `StepMoves` shows that every step of the system,
whoever takes it, is for each client one of seven `Moves`: it watches, stays local,
begins a call, is served, fails, is cut or takes an answer. The three invariants
then need no state and no other client:

- `Typed` and `InCall`: the call is at one of its requests, its history holds its
  arguments, an error as an answer is a fault;
- `Definite`: a call that has changed the tree is at the request that does, and
  that answer is good or lost, so no error follows but those of `Vague`, or of
  `Partial` if the request stopped half way. It rests on `Sends`, the table
  of what each request of each method is, which is proved of both `Steps`: a request
  that changes the tree is the last of its method;
- `Honest`: the answer to a probe is what the tree was at some look during the call, or
  the probe was denied;
- `Listings`: the entries read so far cover all that was always there in a readable line
  and come from what ever was, and the links still to be read are among them;
- `Promised`: a good answer to the request that earns `Ok` was given when the promise
  was true, and by a step that changed the tree if the method is one of `Sole`. Three
  facts meet in it: `OutcomesAchieve` and `OutcomesAct`, what the request did to the
  tree; `OkIsEarned`, that the method returns `Ok` on that answer only, not on an
  error, a refusal or an earlier request; and that history only grows
  (`PromisedGrows`). `Went` adds where `change_dir` has gone, which the proof of
  `OkMeansDone` carries along with the invariant, since the next call resets it.

`RemoteTreeProofs` has what the server contributes. `TreeOK` is kept by each request
(an `...Keeps` lemma each; `cp -rf` and `mv` by what they do to all places under a
prefix, `OverlayKeepsTree` and `MoveKeepsTree`). `Gone` and `Fresh` are the entries a
tree has lost or had replaced and the ones it has new, and one lemma per request says
what they are (`MkDirMakes`, `RemoveTakes`, `CpRFMakes`, ...). For a file made or emptied
through links the place is where the path leads *afterwards* (`CreatedIsThere`,
`EmptiedIsThere`), which compares two walks step by step. Two families more are about
a request that succeeds: what it has done, seen by resolving its paths again, and,
for those of `Sole`, that it has changed something (`MkDirActs`, `RemoveActs`,
`LinkActs`, `MvFActs`). `EffectsAreEntitled` joins
them: only `Serve` changes the tree, for its own client, with the one request that
`Sends` allows its method (`Mutations`).

`ClientsKeepContract` is the refinement, from `ClientsInv`, the conjunction of these
invariants. Each action of the system is an action of the contract or a stutter:
`InvokeAsks` (an `Ask`, or a `Decline` when there is no session), `LocalDeclines`
(connecting and what is refused at once), `ServeActs` (an `Act`, in which the promises
of all calls in progress are looked at again), `TakeTells` (a `Tell` if the call
returns, a stutter if it goes on) and `FaultStutters`. `Definite` gives that a call
which is served has not acted before and that *failed* is true, `Promised` that
*done* is, and the lemmas of `EffectsAreEntitled` that the act is the call's own.

### What the proofs changed in the model

- An arm of a `CASE` in `Attributes`, `RemoteFsClients` and `RemoteTree` had a guard that
  overlapped with that of an arm before it (in `Entitled`, `create` through SFTP and the
  append modes), so that the choice was open to the prover though TLC takes the first;
  the guards are exclusive now.
- `ReadsBack` excepts a time that a packet cannot hold: it comes back modulo the width.
- `Neat` asks that the output is text, and the statuses are decimals without leading zeros.
- `Matching` is a recursive function where it was `SelectSeq`, which is a recursive
  operator inside the standard module.
- `TreeOK` says that a tree is a function on the paths, and the assumptions say that
  names are finitely many and requests are of arguments.
- `OkIsDone` was first stated for `mov` in terms of its paths: afterwards the source is
  gone and the destination is what it was. In larger trees than the runs have that is
  false of a move that did all it should: when the way to the destination leads through
  the entry that is moved, a link, or the move replaces a link on the way to the source,
  the paths lead elsewhere when it is done. `Post` speaks of places now and
  takes the trees before and after the step.
- A text of `pwd` that was cut twice could be a beginning of the login directory, for the
  second cut was of what the first had left; `Cut` takes what `pwd` had printed.
- Path resolution counted components, and with a limit just enough to make an entry,
  looking it up took one more, so `OkIsDone` depended on the limit. It counts links
  now, and `scp -t` counts those of the whole path, of which it opens a part first.
- `DefiniteErrors` left out `remove_dir_all` and `copy` altogether; the proof needs only
  the two errors in `Partial` left out.

### What is only model-checked

- Liveness: `ReturnsUnlessShort`, `CallsReturn`, `DialingEnds`. It needs fairness, which
  is out of the prover's reach.
- The properties of the runs that end in violations, which do not hold.

## 5. Not modelled, and the plan

What could come next is the text of a line of `ls`: columns that run into each other, a
name that contains an arrow (`get_name_and_link`), a cut in the middle of a name.

Left out for good: parsing of the configuration file (the `ssh2-config` crate), the
SSH and SFTP protocols (libssh2), builders and `Display` forms, `ssh/stream.rs`, which
delegates each call, and the data inside a file written through `scp`, which is
the caller's. `RemoteFs`'s default methods, and with them `remove_dir_all` of the SFTP
client, are outside the repository. `RemoteFsClients` takes the working directory
after `connect` to be the login directory; a cut `pwd` there is left out.
