# A verification development for luanet

luanet is a small networking module for Lua: a C++ TCP client socket
(`Client_socket`) wrapped as the Lua class `luanet.socket`, an IRC client
written in Lua on top of it, and some helpers (random strings, SHA-1, a regular
expression match, a sleep).  This directory holds TLA+ modules that model the
socket, the network below it and the programs above it, the regular expression
machine the module brings along, its SHA-1 object and the helpers, the TLC
configurations that check them on small instances, and theorems about the socket,
the two programs above it, the SHA-1 object, the helpers, and the compiler and the
matcher of the regular expressions that TLAPS checks for every instance.

## 1. The system

| component | state it keeps | operations | lives in |
|---|---|---|---|
| `Client_socket` | descriptor number, connected flag, receive buffer, two time stamps, host and port | connect, reconnect, close, three polls, four reads, three writes, two watchdog questions | `src/client_socket.cpp` |
| the operating system | descriptor table, TCP connections | `socket`, `connect`, `close`, `select`, `recv`, `send`, `time` | external |
| Lua binding | a userdata with a pointer | nine methods and `newSocket` | `src/wrap_client.cpp`, `src/luanet_socket.cpp` |
| `luanet.irc.server` | a socket, a string of kept lines, the handlers | `connectServer`, `identify`, `getLine`, `getBufferedLine`, `send`, `proceed`, `whois`, the commands | `luanet/irc.lua` |
| example programs | - | a read loop by lines; a loop of `proceed()` | `examples/` |
| `luanet.misc` | - | case conversion, `random`, `randomString`, `sha1`, `listdir` | `src/luanet_misc.cpp` |
| `SHA1` | digest words, a 64 byte block, a 64 bit length, two flags | `Reset`, `Input`, `Result` | `src/sha1.cpp` |
| `luanet.regex` | - | `match` | `src/luanet_regex.cpp` |
| GNU regex | the pattern buffer: bytecode, settings, fastmap; a failure stack and registers while it matches | `regcomp`, `regexec`, `regfree`; `re_compile_pattern`, `re_search`; `re_comp`, `re_exec` | `src/regex.c`, `include/regex.h` |
| `luanet.sleep` | - | `sleep` | `src/luanet_sleep.cpp` |

`src/lua_net.cpp` is not built, and `luanet/init.lua`, the headers, the build
files and the manual page keep no state.

How they interact.  A program is one thread: it calls a method, the method makes
a few system calls and returns.  Nothing waits for the network, `select()` is
given 100 microseconds.  What runs concurrently is the peer (and the kernel),
whose bytes, close and reset fall between any two calls.  Objects of one process
share its descriptor table: a descriptor *number* that one of them has closed is
given to the next that connects.  The IRC client is driven by its user's loop,
calls the user's handlers, and a handler may call back into it: `whois()` reads
the socket inside `proceed()` and leaves the lines it does not want in
`self.buffer`.

What is hard in it, and what makes each component right:

* **Descriptors.** `close_socket()` keeps the number, `connect_socket()`
  overwrites it, a failed connect keeps it open, the collector closes nothing.
  Right means: the number an object holds is the connection it opened, nobody else
  reads or writes that connection, none is leaked.  Only a program that keeps to
  a discipline gets this.
* **The connected flag.** It is set in one place and cleared in five, among them
  inside a read.  Right means: it never says yes of a connection that was not
  established, and it does not come back.
* **The byte stream.** `recv()` cuts lines anywhere, `getline()` polls again
  before it cuts a line off, the buffer outlives a reconnect.  Right means: no
  byte is lost, repeated or reordered, a line is a line of the stream.
* **Short writes and SIGPIPE.** A line sent in part must be the last.
* **Time stamps** that are never set by the constructor or by `connect`.
* **whois()** reads ahead, in a loop that does not look at the connection.
  Right means: lines are handled in order and none is dropped, `whois()` returns
  and its table is of the person asked for, the loop ends with the connection.

* **Bytecode that is rewritten.**  `regex_compile()` inserts jumps into the middle
  of what it wrote, and `re_match_2()` changes the bytecode while it runs it:
  loops are turned into loops that do not backtrack, the counters of an interval
  are decremented in place.  Right means: a pattern matches the strings of its
  language, whatever was searched before.
* **Backtracking.**  A failure point stores a variable number of registers on one
  stack and they are popped again by count.
* **Who frees what** when a pattern does not compile.
* **Padding and counting** in SHA-1: a message that ends near the end of a block,
  a carry from one length word to the other, calls after the result.
* **Widths.** `max - min + 1` and `milliseconds * 1000` are ints; a descriptor is
  left open by each `listdir()`.

`PROJECT.json` lists these hazards line by line with the properties that would
catch them.

## 2. Modules

```
Network            descriptor table and connections (external)
  ClientSocket     Client_socket and its userdata, one action per method
    ClientSocketProps    the properties of ClientSocket
      ClientSocketProofs   theorems about every program (it implements LineStream)
                           and about careful ones
      MCClientSocket       constants for TLC
    ReadLoop         examples/socket.lua over the bytes
      ReadLoopProofs       theorems about it (with the lemmas of ClientSocketProofs);
                           it implements LineSocket
      MCReadLoop
LineStream         abstract: what a reader of bytes and lines is promised
LineSocket         abstract: the socket as a program that reads by lines sees it
  IrcServer        luanet/irc.lua and examples/testirc.lua over LineSocket
    IrcServerProofs      theorems about it
    MCIrcServer

RegexCode          opcodes, numbers in the bytecode, syntax bits, characters
  RegexCompile     regex_compile(), one action per construct of a pattern
    RegexMatch     re_search_2() and re_match_2(), one action per opcode
      LuanetRegex        match() and the POSIX, GNU and BSD entry points
        RegexSafety      the properties of buffers, heap and failure stack
          RegexProofs    theorems about buffers and heap
            RegexBytecodeProofs  lemmas: the bytecode while it is being written
              RegexMatchProofs   theorems: it is whole, and the matcher stays on it
          RegexProps     the properties about what a pattern means
            MCRegex      joined with RegexNull
  RegexNull        which groups may match nothing; the fastmap
  RegexLanguage    abstract: the text of a pattern and what it matches

Sha1               the SHA1 object, for any sizes and any compression
  MCSha1
  LuanetMisc       luanet.misc and luanet.sleep
    LuanetMiscProofs     theorems about the SHA1 object and about them
    MCLuanetMisc   with Sha1Words: the compression function of the code

Recursion          induction and definition by recursion, for the proofs
```

Two refinements tie the levels together.  `ClientSocket` implements `LineStream`
(`LinesAreOfTheStream`), whatever calls are made.  `ReadLoop`, one program over
`ClientSocket`, implements `LineSocket` (`ReadsByLines`); `IrcServer` is built on
`LineSocket`, so what it assumes of the socket is what the byte-level model does.

### Network

`table` maps descriptor numbers to connections and `st` gives each connection
its state.  The bytes the peer has sent on `c` are `sent[c]`, of which `recv()`
has returned `taken[c]`; `out[c]` lists the messages the peer has been sent, each
with its author and whether `send()` took all of it.  `socket()` returns the
lowest free number (POSIX), or fails when there is none.  A reset may drop the
bytes that are queued.  After a peer's close a `send()` still succeeds; after a
reset it fails or kills.

### ClientSocket

| TLA+ | code |
|---|---|
| `exists` | the program holds the userdata |
| `sock`, `connected`, `buff`, `last_poke`, `last_ping` | the members of the same name |
| `clock` | `time()` |
| `proc` | the process, `"killed"` by SIGPIPE, an uncaught exception or a bad `FD_SET` |
| `mine`, `users`, `received`, `eaten`, `lines` | history only: who opened, read and wrote a connection, which bytes `recv()` took off it, which bytes left the buffer, which lines were returned |

One action is one method call with all the system calls it makes; a call blocks
nobody and no other code of the program runs inside it, so a call is a step.
The peer could move between the two system calls of one method, but each method
makes at most one call that looks at the connection: `getline()` reaches the
network only through its one `can_getline()`.

Uninitialised members are any value of their type (`NewSocket`).  `FD_SET` with a
number outside the set is undefined: `Bufferize` lets it do nothing, kill the
process, or, for -1, clear the flag.  `Poll` stands for `can_getline()`,
`can_getchars()` and `can_getchar()`, which differ in their answer only.

`Next` lets the program make any call on any object at any time.  `CarefulNext`
is the same program when it closes what it opened once, before it connects again
or drops the object, and reads and writes in between only.  Properties whose name
starts with `Careful` are claimed of `CarefulSpec`; a program that closes twice or
reads after a close breaks them.

`received` is written from the connection's own counter (`TakenOff`: the bytes `taken`
moved over), not from what `bufferize()` puts into the buffer, and nothing reads it but
the refinement: a byte dropped, doubled or moved between `recv()` and the caller makes
what is handed out differ from it.

### LineStream and LineSocket

`LineStream` has, per object, the bytes that have `arrived` and those that have been
`passed` on, which are always the first of them; a line is what lies between the
place reached and the next `'\n'`, and nothing says how the bytes were cut into
packets.  `ClientSocket` maps `arrived` to `received` and `passed` to `eaten`: its
buffer does not occur in the promise, and has to hold what is between the two.  `LineSocket` forgets bytes: lines wait on the `wire`, then in `ready`;
`flag` is `is_connected()`, and falls in a read that finds the connection at its
end, or in a write.  `"tail"` is an end that is still hidden behind an
unfinished line.  A `recv()` that completes no line changes nothing a program sees,
however long the line it belongs to, and is no step of `LineSocket`; only a
`getline()` that takes a line that was there before may poll without a new one.

### ReadLoop

`examples/socket.lua` statement by statement, with a program counter.  Here the
actions of `ClientSocket` are used as they are.  `LinesOf` cuts a buffer into its
lines from the front, byte by byte, as a recursive function: it is what the
refinement maps the bytes to.

### IrcServer

A line is its kind (what the patterns and comparisons of `proceed()` and
`whois()` tell apart), the nick it speaks of, and a serial number by which the
properties follow it.  `self.buffer`, a string, is the sequence of its parts
between `'\n'`s, so `""` is one empty line and the leading `'\n'` that `whois()`
writes is an empty first part: `BufferRest` cuts it as the pattern of
`getBufferedLine()` does.  A handler may return, send a command, or call
`whois()`, any number of times in a row.  The server owes an answer to each
WHOIS that reached it, in order; some servers send a 318 after a 401 and some do
not, so both are possible each time.

Abstracted: the text of commands, the parameters the patterns extract, `sleep()`.

### The regular expressions

The bytecode is modelled byte by byte, in a sequence, because the code's own
hazards lie there: jumps are two bytes that are written before what they lead
over is known, insertions move them, and the matcher stores into them.

| TLA+ | code |
|---|---|
| `bufp` | `re_pattern_buffer`; `Code` is the used part of its buffer, `map` its fastmap |
| `cl` | the locals of `regex_compile()`: `laststart`, `begalt`, `pending_exact`, `fixup_alt_jump`, the compile stack; a pointer is an index, 0 is null; `pc = "list"` is a bracket expression that is open |
| `m` | the locals of `re_search_2()` and `re_match_2()`: `p`, `d`, the failure stack, the registers and the active ones, `best_regs`; its `pc` is the loop over the places, the opcodes, or the label `fail` |
| `heap` | blocks that are allocated and not freed |
| `call`, `result`, `searches` | the entry point that runs, what the last one returned |

A place where C is undefined but the build does something is modelled by what it
does: `stop_memory` compares pointers cast to `int` (`high_half` says whether the
string lies above 2^31, both are tried), and a bitmap of 32 bytes times 8 is cut
to a character.  Reading past the bytecode or popping an empty stack makes
`m.pc = "crashed"`.

A pattern is given as a syntax tree; `RegexLanguage` prints it in the syntax in
force (or takes a text as it is, for odd and malformed ones) and says, by
recursion on the tree and without bytecode, where it matches.  `RegexProps`
compares the two.  The compiler and the matcher take the two analyses of the
bytecode (`NullOf`, `FastmapOf`) and the text of a tree (`TextOf`) as parameters;
`MCRegex` gives them the code's, of `RegexNull` and `RegexLanguage`, which are
recursive operators.

On systems where the dynamic linker finds the C library's `regcomp()` first, a
program may not run this file at all; the model is of the file in the repository.

### Sha1, Sha1Words, LuanetMisc

`Sha1` has the members of the class by their names; `rest` is what a running
`Input()` has still to take, one octet a step; `message`, `late` and `returned`
are history.  `Compress` and the sizes are parameters: `MCSha1` takes a block of
eight octets and a compression that forgets nothing, so that a digest *is* the
padded message, and words of four values, so that the length wraps.  `Sha1Words`
is the compression of the code, on words in two halves of 16 bits.
`LuanetMisc` puts the two together: `sha1()` feeds a string to an object of
`Sha1` and prints the digest, and the other functions answer in one step each.

## 3. Runs

Seven pass, and are small enough to be exhaustive; five end in a counterexample.

| run | checks | what is in it |
|---|---|---|
| `client_careful` | `TypeOK`, the five `Careful...` | two objects, three descriptors, three connections; an `fd_set` with room for 5, so that the numbers used stay inside it exactly as long as nothing leaks; resets, failed connects, short sends, collection, no descriptor left |
| `client_lines` | `LinesAreOfTheStream`, `ConnectedWasEstablished`, `DisconnectionIsFinal`, `OnlyTimeTimesOut` | one object, two connections that take turns behind one descriptor number, a clock, every interleaving of all calls (also on a number that is stale) with a peer that sends two bytes of `'\n'` and `'\r'` on each |
| `read_loop` | `PingsAreAnswered`, `LoopEndsWithConnection`, `LinesArePrinted`, `ReadsByLines` | four bytes in packets of up to three: two lines, an unfinished one, a PING, a `'\r'` cut from its `'\n'` |
| `irc_whois` | `TypeOK`, `HandledInOrder`, `WhoisMatches`, `WhoisReturns`, `LinesAreHandled` | every handler or none; two calls of `whois()` from any of them, three lines the server sends of itself, of three kinds, an end of the connection at any point |
| `regex` | the eleven properties of `RegexProps` and `RegexSafety` | every pattern of `MatchTrees` with every string of `a` and `b` up to three characters through `match()`; the patterns of `ApiTrees` (newlines, cases, anchors, lists, intervals, back references, malformed ones) through the POSIX, GNU and BSD entry points, with and without a fastmap, from every start in either direction, two searches with each compiled pattern |
| `sha1_object` | `TypeOK`, `DigestIsOfTheMessage`, `CorruptedForAReason`, `LengthIsOfTheMessage` | every order of `Reset`, `Input` and `Result` on a message of up to sixteen octets, where the length overflows |
| `misc` | `Sha1OfTheString`, `RandomIsInRange`, `ListdirIsTheDirectory` | digests of nine strings at the code's own sizes (empty, with a NUL, with characters above 127, of 55, 56, 64, 119 and 120); all pairs of ints of three bits; two directories and two descriptors |

Five more runs end in a counterexample.  Each states what a comment of the
repository says and shows the code doing otherwise:

| run | the comment | the code |
|---|---|---|
| `read_loop_lost_lines` | "If a new line is availiable in the buffer / We read it and print it" | the poll inside `getline()` may see the end of the connection; the loop stops with lines in the buffer |
| `irc_lost_lines` | "output all the raw text, commands and so on that it sends us" | `getBufferedLine()` cuts a line off and returns a global that is nil |
| `regex_counts` | "Have to succeed matching what follows at least n times" | a failure point inside the group does not restore the counter: `(a\|a){2}` matches `a` |
| `regex_registers` | "We actually push this many items." | an alternative that failed leaves its groups marked active; `stop_memory` takes one for the highest active group, and the failure points that follow are counted as one item where four are stored |
| `regex_end` | "If we failed to the end of the pattern, don't examine *p." | a jump that is failed to is followed to the end of the bytecode and the byte there, which nobody wrote, is examined: `b\|a{0}` matches everything, or misses what has no `b` |

Other places where the code does not do what it should, which the models contain
and whose properties leave them room:

* `close_socket()` leaves the connected flag as it was: `isConnected()` is true
  of a closed socket.
* A line that no pattern of `proceed()` matches, such as a PING without an
  `on_ping` handler, raises a Lua error (`LinesAreHandled` counts the raised
  error as an end).
* `whois()` never looks at the connection: when that ends while it waits, the
  script stays in its loop (`WhoisReturns` is about a connection that lasts).
* The 318 that some servers send after a 401 ends the *next* `whois()`, whose
  table is then of the one before (`WhoisMatches` excepts what follows a `missed` one).
* A group inside a loop that begins and is given up keeps its new start with its
  old end: `(.(a)|b)*` on `aab` reports group 2 from 3 to 2.  `match()` does not look at
  the groups; no pattern of `regex` has one like it, so that `MatchIsReal` holds there.
* `a{0}*` compiles to a loop that never ends, `[a-\377]*a` and, with
  `REG_NEWLINE`, `a\.*\n` do not match what they should (`regex.c:4035`, where
  a length is cut to a character, and `regex.c:1304`, which takes an escaped dot
  before a star for `.*`), and `a|a*` at the start of `aab` may report the shorter match.
  `a{0}*`, `[a-\377]*a` and `a\.*\n` are not among the patterns of `regex`;
  `MatchIsReal` asks for *a* match, not for the longest.
* `regex_compile()` returns from an error without freeing its compile stack
  (`NothingIsLeaked` excepts that block).
* `random()` with `max = min - 1` divides by zero; `listdir()` never closes what
  it opened.  `RandomIsInRange` and `ListdirIsTheDirectory` say where that is and
  that it is nowhere else.
* `sleep()` multiplies into an int that may overflow and ignores the result of
  `usleep()`, which may refuse the argument or be interrupted: the model lets it return
  after any part of the time, and no property is claimed of it.
* In the walk of `re_compile_fastmap()` a jump of displacement 0 at the end of the
  bytecode, as of `a\|`, reads the byte beyond it (`regex.c:2724`); `Walk` takes a plain
  jump.  `WORDCHAR_P` indexes its table with a signed char (`regex.c:3101`, `4277`), in
  front of it for a character above 127; `Word` says "no word character".  No pattern
  of the runs has such a jump and no text such a character.

**Bounds and why they are enough.**  Objects interact through descriptor numbers
only, so two of them and one number (or three, to have a free one) show every way
one can take another's; three connections let a number be used again twice.  A
line is cut at any place by two to four bytes, of which one is `'\n'` and one
`'\r'`; a third letter adds nothing to `getline()`, which compares with those two
only (in `read_loop` it is the PING).  The flags and stamps are compared with the
clock only, so two seconds show equality and both orders.  Two `whois()` show one
left-over reaching the next.  Three lines are one whose handler calls `whois()` and two
that it keeps: the first kept line is lost (`irc_lost_lines`), so that it takes the
second for a kept line to be handled.  The kinds are a PING (which a handler takes
and which is an error without one), a line every `proceed()` gets through, and an empty
one, which `getBufferedLine()` cuts off together with its neighbour; a numeric with its
handler is a 318 that `whois()` left over.  What a PRIVMSG would add is the same
step to another handler.  The theorems `LinesInOrder` and `WhoisIsOfTheNick` are about
any number, of any kind.  In
`client_lines` nothing is written and in `client_careful` nothing is received: what a
write does to the stream and a read to the messages is nothing, which the theorems of
section 5 do not depend on; nor do they on the one object of `client_lines`, beside
which `client_careful` has two.
`CHECK_DEADLOCK` is off because these programs stop: the process
dies, the loop ends, the bounds are reached.

In `regex` the sizes are scaled down (a buffer of 8 bytes that doubles up to 128,
three registers, 100 failure points) so that the buffer grows in most patterns;
no pattern of the run reaches the other two limits by itself.  Three characters
let a loop run twice and be backtracked into; two
searches with one pattern show what the first rewrote reaching the second.  In
`sha1_object` sixteen octets are a message that is one too long, every position
in a block and both carries are passed; three arrays feed in zero, one and three
octets.  In `misc` the digests were computed independently; the ints of three bits
have each overflow the wide ones have, and 2 stands for 1000.  The two words of
the length are kept below 2^30, the widest TLC can double: no string reaches that.
One call of `sha1()` is made, since an object is made for each.
`CHECK_DEADLOCK` is off in `regex` (a program that has made its two searches with
`re_comp()` or the GNU calls has nothing left to do: those never free) and `misc`
(`random()` may kill the process).

Symmetry is used in the runs without temporal formulas only (objects and
connections are interchangeable there).

## 4. Fairness

`ReadLoop` and `IrcServer` have weak fairness of the script as a whole: it is one
thread, and no call of it waits for the peer (`select()` has a time-out, the
sockets are read only when `select()` announces something, `sleep()` returns).
The peer owes nothing in `ReadLoop`.  In `IrcServer` the server has weak fairness
for the *answers* it owes only: an IRC server that has received a WHOIS answers
it while the connection lasts.  It owes no end and no line of its own.
`ClientSocket` itself has no fairness and no liveness.  `LuanetRegex` has weak
fairness of a running call (`Run`): an entry point waits for nothing, so it keeps
taking steps until it returns, and `CallsReturn` says that it gets there.  The
program owes no call.

`WhoisReturns` therefore says what can be said: `whois()` returns or the
connection has ended; it may then not return at all.

## 5. What is proved

TLAPS checks the proofs for any sets of objects, descriptors, connections and
bytes and any bounds, from the assumptions of `Network` (`NetworkAssumption`:
descriptors are numbers, the marker `NoConn` is no connection) and `ClientSocket`
(`ClientSocketAssumption`: the two bytes differ, `recv()` returns at least one
byte), for `IrcServer` any nicks, handlers and bounds that satisfy its own
assumption, for `Sha1` any sizes, arrays and compression that satisfy
`SizesAssumption` (the length is two words of whole octets at the end of a longer
block, a word of bits is a whole number of octets) and `ArraysAssumption`, for
`LuanetMisc` any width of an int, directories and strings (`MiscAssumption`), and for
the regular expressions any patterns, sizes and analyses (`TextAssumption`,
`LiteralAssumption`, `SizeAssumption`: texts are of characters that have a code, the
first size of a buffer is not above its limit).

`Recursion` is what the proofs use for what is defined by recursion.  A library
theorem about induction takes a predicate, which these provers cannot be given; here
induction is over the *set* of numbers that have a property (`ByInduction`), and the
base and the step of a recursion are constants that an `INSTANCE` gives their value:

* `FollowsEquation`: a function so defined exists, and satisfies its equation.  The
  lines of a buffer (`CutIs`), the digest of a message and the entries of a directory
  are instances of it.

`ClientSocketProofs`, for every program (`Spec`):

* `TypeCorrect`: `[]TypeOK`.  The lemmas follow the data: what `recv()` returns
  is a piece of what arrived (`IncomingType`), the first `'\n'` of a buffer exists
  when there is one and cuts it in two (`LineEndIsFirst`, `FirstLineType`).
* `ConnectedIsEstablished`: `[]ConnectedWasEstablished`.  Not inductive as it
  stands: a connection that is opened must have been free, and one that some
  object calls its own must not become free again; `EstablishedInv` adds that.
* `DisconnectedStaysSo` and `TimesOutByTimeOnly`: action properties, from the
  fact that every call but a connect lets the flag fall only (`FlagFalls`), and
  that stamps move to the present only (`StampsMoveToNow`).
* `SocketIsStream`: `LinesAreOfTheStream`, the refinement.  The invariant it needs is
  `Kept`: what `recv()` has returned for an object has left its buffer or is in it, in
  this order.  `recv()` returns what the connection's counter moves over
  (`TakenOffIsIncoming`), every call moves the border between the two parts or puts more
  at the end of both (`Longer`, `GrowsBy`), so that what has left the buffer is always
  the beginning of what was received (`PassedUpTo`); that the line `getline()` cuts off
  the *buffer* is the next line of the *stream*, with the same `'\r'` taken off, is
  `LineOfStream`.

and, for careful programs (`CarefulSpec`, shown to be a `Spec` in
`CarefulIsAProgram`):

* `CarefulAlways`: the inductive invariant `CarefulInv`.  That an object's
  descriptor is its own survives another's `close()` only if two objects never
  own one connection, which follows from `OwnerIsUser`; that survives
  `connect()` only if a connection that is opened is behind no descriptor yet
  (`TableIsSound`); that a half-sent line is the last of its connection needs its
  author disconnected (`PartIsLast`) and nothing sent before the connection was
  opened (`FreeIsFresh`).  Opening and closing are treated once, in
  `ConnectKeepsCareful`, from what holds of everyone else (`OthersOwn`), because
  `reconnect_socket()` is a close and a connect in one step.
* `DescriptorStaysMine`, `NothingLeaks`, `NobodyElseReads`, `LinesStayWhole`:
  the four properties, from it.
* `OnlySigpipeKills`: `[]CarefulDeathIsSigpipe`, on the assumption that there are no
  more objects than an `fd_set` has room for numbers the process may use (`FewObjects`;
  in the run two, with the numbers 3 and 4 below its 5).  POSIX gives the lowest
  free number and none leaks, so each number in use belongs to another object, and the
  one given is below the limit while there is an object left to ask for it.  The write
  that kills goes to the writer's own connection (`CarefulInv`), which was established
  (`ConnectedWasEstablished`) and is not closed: its peer has reset it.

`ReadLoopProofs`:

* `LoopTypeCorrect`: `[]LoopTypeOK`.
* `EveryPingIsAnswered`: `[]PingsAreAnswered`.  `LoopInv` says at every label how many
  lines the peer holds (`Due`); that a line goes to the connection the script opened
  needs that its descriptor is still that connection's (`ScriptOwns`), and that a PING
  is counted once needs that `getLine()` is called only when it will return a line
  (`LineIsReady`), whatever its second poll brings.
* `SeesLinesOnly`: `ReadsByLines`, the refinement, as long as the lowest descriptor
  the process may open fits an `fd_set` (`FirstFits`; the script opens one, and POSIX
  gives it the lowest).  `Alone` says what is particular to a script with one
  connection: its descriptor is that connection's, no other has left `"free"`, and
  SIGPIPE strikes only after a reset.  The rest is about bytes.  The lines of a piece
  of a stream are the first lines of the whole, and all of them exactly when no
  `'\n'` follows (`LinesOfPiece`); a byte more is a line more when it is a `'\n'`
  (`LinesOfOneMore`); without its first line a buffer has its other lines
  (`LinesAfterFirst`).  So a `recv()` moves the border between the lines in the buffer
  and those on the wire (`ReadSeen`), `getline()` takes the first (`SeenPrintLine`), and
  the peer adds one, ends, or is not seen (`SeenPeer`).

`IrcServerProofs`:

* `TypeCorrect`: `[]TypeOK`, with two facts beside it that it needs: what `whois()`
  waits for is a nick, and a line is only taken when there is one (`TypeInv`).
* `LinesInOrder`: `[]HandledInOrder`, from `OrderInv`.  A line the server has sent is
  on the wire, in the socket, in `self.buffer`, in the handler's hand or handled, and
  the serials grow along that way (`QueuesInOrder`, `HandledFirst`, `CurIsNext`).
  What makes it hold is that `proceed()` asks the socket only when `self.buffer` holds
  no line (`NothingKept`), so that a line `whois()` kept is never overtaken.
* `WhoisIsOfTheNick`: `[]WhoisMatches`, for a server that sends 311 and 318 in answer
  to a WHOIS only; it may send a 401 of its own at any time, which ends the loop with
  nil.  `WhoisInv` says of everything still to be read, in the socket, on the wire and
  owed by the server: while `whois()` asks there is one 318 in it at most, and the table
  is of the nick when the loop gets there (the 311 before it is the nick's, or a 401
  ends the loop first: `Promised`); when it does not ask there is none (`NoEnd`), unless
  one was left unread, which `WhoisMatches` excepts.  Answers come last and in order, so
  a question asked when no 318 is left is answered by its own (`AnswerPromised`).

`LuanetMiscProofs`, about the SHA-1 object:

* `TypeCorrect`: `[]TypeOK`, with `Running` beside it: an `Input()` runs on an object
  that is neither computed nor corrupted.
* `CorruptedOnlyForAReason` and `LengthIsCounted`, both from `LengthInv`: the two
  words count the octets of the message (`CountIs`), and the object is corrupted
  exactly when something came late or the message is `Full`, that is, when the
  high word has wrapped.  It takes a little arithmetic of multiples that the
  provers have to be led through (`NextMultiple`, `MultiplesInOrder`).
* `DigestIsTheReference`: `[]DigestIsOfTheMessage`: in whatever pieces a message comes,
  `Result()` hands out the chain of the compression over the padded message, on the
  hypothesis that a word of the length has a value for every way to fill its octets
  (`WordsAreFull`: 2^32 = 256^4 in the code, 4 = 2^2 in `MCSha1`).  In between, `H` is
  the chain over the blocks that are full, and the block holds what follows them
  (`Filled`); the two ways of `PadMessage()`, one block or two, each give the octets of
  the reference (`LengthOctetOfBits` is the length, octet by octet, across the two words).

and about the helpers:

* `RandomStaysInRange`, `ListdirListsTheDirectory`: the two properties of the helpers,
  for ints of any width.  That the difference and the sum wrap into a range, and when
  they wrap to zero, is arithmetic of remainders; the list `listdir()` builds is
  followed entry by entry.
* `Sha1IsOfTheString`: `[]Sha1OfTheString`, from the theorem about digests: the object
  `sha1()` makes is fed the string up to its first NUL, and nothing else, and the digits
  of the five words are printed in order.  Its second hypothesis,
  `KnownAreTheDigests`, says that the digests the property compares with are those of
  the standard; at the code's widths TLC cannot evaluate it (256^4 is no int of TLC),
  and the run computes them instead.

`RegexProofs`, for every pattern, syntax, size and order of calls:

* `OnlyTheStackLeaks`: `[]NothingIsLeaked`.
* `CompiledCodeFits`: `[](searches = 0 => BufferHoldsTheCode)`: from its first byte to the
  first search the bytecode, and the bitmap of a bracket expression that is being read,
  fit what is allocated, which never passes the limit.  The invariant (`SafeInv`) is
  about places: `begalt`, `laststart`, `fixup_alt_jump` and the places saved for each
  open group lie inside the bytecode, the jump to be fixed up with room for its two
  bytes; only so does an insertion before one of them make the bytecode longer by what
  it asked `GET_BUFFER_SPACE` for and no more.  A search rewrites the
  bytecode at the targets of its jumps, so that what it keeps depends on what the
  bytecode means: that is `BufferAlwaysHoldsTheCode` below.

`RegexBytecodeProofs` (what the bytecode is, and the lemmas about the compiler's
stores) and `RegexMatchProofs` (its steps, the matcher and the theorems), again for
every pattern, syntax and order of calls, and for every text:

* `CompiledCodeIsWhole`: `[](Len(Code) <= 32767 /\ searches = 0 => BytecodeIsWhole)`.
  32767 is what a displacement of 16 bits can lead over; nothing in the code keeps a
  pattern below it, except `MAX_BUF_SIZE` at twice that.  `WriteInv` says, in
  `Written`, what the bytecode is while it is written: instructions one behind the
  other up to the end (`Shape`); gaps only where a jump is still to be written, which
  are the `fixup_alt_jump` of the open alternatives (`Gaps`); jumps that lead to
  instructions, none of which passes over a place where the compiler may still insert
  (`Linked`, `Cut`).  That last part is what makes it inductive: an insertion before
  such a place moves a jump and its target together, or neither, and a displacement
  that is never adjusted stays right.  The places are `begalt`, `laststart` and those of
  the open groups, which are nested (`NestedIn`).
* `BytecodeStaysWhole` (`BytecodeIsWhole`), `MatcherStaysOnInstructions`
  (`MatcherStaysInside`) and `BufferAlwaysHoldsTheCode` (`BufferHoldsTheCode`): during and after
  every search, for bytecode that stays below 3584 bytes (`[]ShortCode` is a hypothesis).
  `Tracing` has `p` and the places on the failure stack at instructions, and
  follows the stores of the matcher: `maybe_pop_jump` becomes another jump of its size,
  `set_number_at` and the counted jumps store into a counter, and a `succeed_n` that is
  spent gets two `no_op`s in its own argument.  3584 is 14 * 256, and 14 is
  `on_failure_jump`: `stop_memory` looks for that opcode two bytes behind the target of
  a `jump_n`, which lies in the displacement of a `succeed_n` (`regex.c:3726`).  Below
  3584 the high byte there is never 14; in longer bytecode it may be, and the matcher could then
  take an argument for a place to fail to.

`TypeInv`, `Kept`, `OrderInv`, `WhoisInv`, `Alone` and `SafeInv` were also checked by TLC, on the
instances of the runs (`WhoisInv` besides with a server that sends 401 of its own), and
the hypotheses hold there: `FirstFits` with descriptor 3 and a set of 4, `WordsAreFull`
as said, and no run of `IrcServer` that checks `WhoisMatches` lets the server send a 311
or 318 unasked.

Model-checked only:

* liveness (`LoopEndsWithConnection`, `LinesArePrinted`, `WhoisReturns`,
  `LinesAreHandled`, `CallsReturn`), which is out of the prover's reach;
* what the regular expressions mean (`MatchIsTrueIfItOccurs`, `RefusesTheMalformed`,
  `SearchFindsTheFirst`, `MatchIsReal`): the language of a pattern is a recursive
  operator, and so are the analyses of the bytecode;
* `FailurePointsFit`, which holds of the patterns of `regex` and not of all
  (`regex_registers`), and `NoMatchCrashes`, which rests on it: where failure points are
  miscounted, what is popped is not what was pushed.

## 6. What is not modelled

Of `src/regex.c`: texts given in two strings, `re_match()`, `re_set_registers()`,
`re_set_syntax()`, `regerror()`, the opcodes for Emacs, multibyte characters, and
allocations that fail.  A program has one compiled pattern at a time.  Of
`src/luanet_misc.cpp`: `uppercase()`, which nothing calls, and the seeds of
`random()`.  The Lua stack handling of the bindings and the `libluawrap` they use;
the branches for Windows; host names, DNS and ports beyond "the lookup or the
connect fails"; the text of IRC commands.  `operator==` and the accessors read and
change nothing.  `src/lua_net.cpp` is not built; `luanet/init.lua` and the headers
keep no state.

## 7. Plan

Done: the socket, the network, the read loop, the IRC client, the regular
expressions, SHA-1 and the helpers, and the theorems above.

What is left:

1. `FailurePointsFit` and `NoMatchCrashes` as theorems, for the patterns in which no group that
   an alternative gave up is followed by a failure point: it takes an invariant of how
   groups nest along the jumps, on top of `Tracing`.
2. The matcher on bytecode of 3584 bytes and more.
3. `RegexMatch` over a text in two strings (`re_search_2()`), and the limit of the
   failure stack, where `regexec()` says that nothing matched.
