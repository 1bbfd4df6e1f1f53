# RubiCsBash in TLA+

RubiCsBash is a Rubik's cube in the terminal: a program for a single device,
and a server that lets up to six clients, one per face, turn one shared cube.
This directory holds TLA+ models of it, the configurations that check them with
TLC, and theorems about them checked with TLAPS.  Paths below are relative to
the repository.

## 1. The system

| part | state | operations | interacts with |
|---|---|---|---|
| **Cube** `src/rubiks_start.c`, `src/constants.h` | six faces of nine colours; per face a table of its four neighbours and the edges they share | `make_cube`, `rotate`, `shuffle`, `is_solved` | called by all programs |
| **Encoding** `src/server/encoding.c` | none (a 56-character buffer of the caller) | `encode`, `decode` | broadcaster encodes, client decodes |
| **Single-device program** `src/rubiks_view.c` | cube, current face, the terminal | keys `a d 0`–`5 space q` | ncurses |
| **Server process** `run_server.c`, `rubiks_server.c` | `global_cube_state`, a mutex, the semaphore `broadcast_message_ready`, two pipes per client slot, the number of clients | accept loop (main), one listener thread per client, one broadcast thread | pipes to the children |
| **Child process**, one per client, forked by `accept_client` | two buffered streams on the socket, two on the pipes | forwards lines socket → pipe and pipe → socket | server process, client |
| **Client process** `run_client.c`, `rubiks_client.c` | `cube_face_id`, `cube_state_to_display`, the semaphore `update_view_semaphore`, the terminal | curses thread (keys), socket thread (decode), view thread (draw), main (joins, loop) | socket to its child |

The path of a command: a key in the client's curses thread → socket → child →
pipe `client_pipes[c][0]` → listener thread `c`, which locks the mutex, changes
the cube, unlocks and posts the semaphore → the broadcaster, which waits on the
semaphore, locks, encodes, unlocks and writes the line into the pipe
`client_pipes[c][1]` of *every* slot → child → socket → the client's socket
thread, which decodes into the cube the view thread draws, and posts.

What is hard here: listeners, broadcaster and accept loop interleave on one
cube; the broadcast happens after the lock is released; pipes are bounded and
writes to them block; the client's three threads share the cube, the chosen face
and the terminal without any lock; one variable is read before it is ever
written; and the ends of connections (fork, inherited descriptors, end of file,
`SIGPIPE`) decide whether anybody terminates.  `PROJECT.json` lists each hazard
at its line, with the property that watches it.

What makes each part correct:

* Cube: a turn is the turn of a physical cube, in the direction the key says;
  `is_solved` is what a player calls solved.
* Server: commands take effect one at a time; frames are whole; no command's
  broadcast is lost or doubled; all clients see the same states in the same
  order; every connected client learns the newest state.
* Client: whatever the interleaving, the screen ends up with the chosen face of
  the newest cube; the process can end; a command names a face (the server does
  not look).
* Connections: a connection stands as long as its client stays and the server
  runs, whatever the other clients do; no child becomes a second server; a
  broadcast does not wait for clients that left.
* The whole way: once nothing is under way, a client's terminal shows the chosen
  face of the server's cube, however late the client has connected; and it comes
  to show it, as long as the broadcaster is not held up by a slot nobody reads.

## 2. The modules

| module | models | composed of |
|---|---|---|
| `RubiksCube` | constants, adjacency tables, `rotate`, `is_solved` | |
| `Encoding` | the line format | `RubiksCube` |
| `RubiksView` | the single-device program | `RubiksCube`; refines `PhysicalCube` |
| `Geometry`, `PhysicalCube` | abstract: a 3x3x3 block in space whose layers turn by right angles | |
| `RubiksServer` | the server process; its children as the far ends of the pipes | `Encoding`; refines `SharedCube` |
| `SharedCube` | abstract: one cube, serial commands, monotone views | `RubiksCube` |
| `RubiksClient` | the client process with its four threads | |
| `ConnectionLife` | how connections begin and end: accept, `fork`, descriptors, both threads of every child, end of file, resets, `SIGPIPE`, Ctrl-C | |
| `EndToEnd` | a client, its child, the commands, and the broadcaster with the pipes of all slots together | `RubiksClient` |
| `RubiksCubeProofs` | lemmas about the operations of `RubiksCube` | |
| `RubiksViewProofs` | theorems about `RubiksView`, the refinement of `PhysicalCube` among them | `RubiksCubeProofs` |
| `RubiksServerProofs` | lemmas about `Encoding`; theorems about `RubiksServer`: types, frames and wake-ups | `RubiksCubeProofs` |
| `RubiksServerStreamProofs` | theorems about the streams of frames and the number of commands | `RubiksServerProofs` |
| `SharedCubeProofs` | the refinement of `SharedCube` by `RubiksServer` | `RubiksServerStreamProofs` |
| `RubiksClientProofs`, `ConnectionLifeProofs` | theorems about `RubiksClient` and `ConnectionLife` | |
| `EndToEndProofs` | the theorems about `EndToEnd` | `RubiksClientProofs` |
| `MCRubiksView`, `MCRubiksServer`, `MCRubiksClient`, `MCEndToEnd` | the sets the configurations use | |

How the parts divide the program: `RubiksServer` has what the server's threads
do to the cube while connections stand.  `ConnectionLife` has who holds which
descriptor, and forgets what the lines say.  `EndToEnd` joins both sides of the
socket; there a command and an encoding are single steps, because
`RubiksServer` implements `SharedCube` and its frames are whole, and the
client's connection stands while the server runs, because `ConnectionLife` shows
that it does.  What other slots can do to this client, it has to have: the
broadcaster writes to all of them in turn, and each can be empty, read, or left
without its child.

Names follow the source: variables have the names of the C variables, actions
those of the function or of the call they stand for.  `PROJECT.json` ("map")
gives the lines of each definition.  Definitions marked *seeded bug*
(`Lossy_Post`, `Cached_ReadFace`, ...) are variants of the definition below
them, each with a plausible slip; none is part of a specification.  Put in the
place of the original, each makes TLC report the property it is paired with in
`PROJECT.json` ("mutants"), which shows that the property depends on the code.

**RubiksCube.** A turn is the set of moves of stickers that the two `transpose_`
functions make; `rotate` looks the source of each sticker up.  The tables are
those of `make_face`, one record per neighbour, the rows for
`SQUARE_UNDEFINED` left out (they are never read).

**RubiksView.** One thread, so a key is one action, except that a shuffle takes
one action per turn.  `odd` is a history variable: the parity of the turns since
`make_cube`.

**RubiksServer.** One `pc` per thread; an action is a step that other threads
can tell apart.  Under the mutex the listener copies the turned cube back face
by face (`CopyFace`, the loop of `copy_cube`), and the broadcaster encodes face
by face, so that a missing lock would be seen.  A pipe is a sequence of lines
with a capacity: a writer waits while it is full (`Write`).  That a line of 55
bytes may be written to the pipe in two parts is not modelled: there is one
writer and one reader, and the reader waits for the newline.  `version`,
`history` and `received` are history variables: which state a frame encodes,
all states between commands, and what each child has read.  The child process is
`Send` and `Receive`; a frame it has read is on its way to one client over one
socket, in order.  `ConnectionLife` has the child's own steps.

**RubiksClient.** Decoding and drawing go square by square, because nothing
keeps them apart.  `cube_face_id` starts with any face or with `OutOfRange`:
`malloc` does not initialise it.  Drawing with `OutOfRange` reads some colour or
crashes.  The curses thread opens the socket for itself (`OpenSocket`); if the
socket thread has met the end of the file and closed the descriptor before, that
ends the process (`OpenFails`).  `refresh` in the view thread turns curses on again after `endwin`
(that is what ncurses documents).  After the server has closed the connection a
key's line is lost; if it is sent on a connection that has been reset, `SIGPIPE`
may kill the client (`LostKey`).

**ConnectionLife.** Each process has a set of pipe ends, the triples
`client_pipes[c][way][side]`, and a set of connections it has a descriptor of;
`fork` copies both.  A pipe reports end of file when no process holds its
writing end, and a write to it raises `SIGPIPE` when none holds its reading end.
Pipes and sockets are numbers of lines.  The child closes nothing of the other
slots, and nobody closes the listening socket's copies, as in the code.  A
`read` or `write` that has begun keeps the connection open though another thread
closes the descriptor, so beginning and end of both are steps of their own
(`PipeWrite`, `PipeWriteDone`).  Lines that stdio has read ahead are read without a
descriptor (`SocketGetLine`).  A thread that leaves its loop closes two streams,
the connection and its pipe end, in two steps; the other thread may run between
them.  A write to a client that has gone is answered by a
reset; the next one either fails unnoticed, or raises `SIGPIPE`: which of the two
depends on when the reset arrives, so both may happen.  A client that leaves
with frames unread resets the connection, and commands on their way may be lost.
A client here only connects, sends, reads and leaves; `RubiksClient` has the
inside.

**EndToEnd.** The variables and actions of `RubiksClient`, its server replaced:
what the client sends goes through the child into one pipe and to the cube, and
every command of this client or another wakes the broadcaster, whose frames come
back through the other pipe.  The broadcaster's loop (`Write`) goes through all
slots, and waits in front of any pipe that is full.  A slot is `free` until a
client takes it, in order; its pipe fills without a reader, as it does in the
code.  The child of another client reads its pipe (`ForwardOther`) until it
dies, which it may at any time (`ChildDies`).  A pipe keeps a reader, and so
blocks a writer instead of raising `SIGPIPE`, as long as the slot is not taken, or a
child that was forked no later than the slot's own is alive (`HasReader`, which
is what the descriptors of `ConnectionLife` come to); without one, the next write
kills the server (`BrokenWrite`).  Then nothing more is modelled of the server;
what its children do is in `ConnectionLife`.  The children of others may die a
little more freely here than in the code, where only the departure of their
client can bring it about.  This client's child lives; its departure is the end
of interest in it.  `rotate` and what `shuffle` may leave behind are
parameters; all that is assumed of them is that they make cubes.

## 3. What TLC checks

| run | instance | what it shows |
|---|---|---|
| `view_invariants` | shuffles of 1–2 turns, 2 cube-changing keys; 625 504 states | no type error; `is_solved` is true exactly if each face has one colour (`SolvedIffUniform`); an odd number of turns never solves the cube (`OddTurnsNeverSolve`) |
| `view_physical` | shuffle of 1 turn, 1 key; 6 265 states | every step is a turn of the physical cube, a reassembly or nothing (`IsPhysicalCube`); `d` and `a` turn the face on display, clockwise and back (`KeysTurnTheFaceShown`) |
| `server` | 2 slots, pipes of 1 line, 3 commands (a turn, space); 233 735 states | `FramesAreWhole`, `NewestStateIsAnnounced`, `OneFramePerCommand`, `ClientsSeeTheSameHistory`; the server refines `SharedCube` (`IsSharedCube`); every connected client reads the newest state, full pipes or not, unless an empty slot has clogged the broadcaster (`ClientsConvergeUnlessClogged`) |
| `client` | 2 faces of 2 squares, 3 keys, 2 cubes; 719 191 states | `QuiescentScreen`; the screen catches up (`ScreenCatchesUp`); the process ends when it should (`ClientEnds`) |
| `connections` | 2 slots, 2 users, 2 commands, pipes and sockets of 1 line; 234 502 states | `NoChildReturns`, `ConnectionStands`, `ServerKilledOnlyAfterFirstClient`; `BroadcastCompletes`, `LastClientLearns` |
| `end_to_end` | 3 slots, the client in the middle one; 2 faces of 1 square, 2 keys, 1 command of another client, pipes of 1 line; 1 334 986 states | every command in the server's pipe names a face, and the other types (`ServerTypeOK`); at rest the screen shows the server's cube (`ScreenShowsTheCube`), and it comes to show it, unless the client ends, the server is killed or the broadcaster is blocked for good (`CubeReachesScreen`) |
| `server_empty_slot`, `client_garbage_face`, `client_quit`, `client_eof`, `broadcast_after_departure`, `child_comes_back` | | violations, see section 4 |

Each of `RubiksView`, `RubiksServer`, `RubiksClient`, `ConnectionLife` and
`EndToEnd` has one type invariant, which its first run checks as well.

**Why the bounds suffice.** In `view_invariants`, four turns from solved
include every pair of turns and its undoing, so the cube is solved again by
different ways and a second shuffle begins.  In `view_physical` all twelve turns
are made from every cube one turn away from solved; on those cubes each square
of a face changes under a different set of neighbours' turns, so a wrong source
for any square shows.  The server needs two clients for a race and for a slot that
stays empty, three commands for one to be carried out while the second is being
broadcast and a third waits, and a capacity below the number of commands for
pipes to be full.  Two instances with pipes of two lines were checked as well:
with turns both ways and spaces, the invariants only (573 518 states), and with
the lines of the run, everything (301 734 states).  Shuffles of one or two random turns exercise the loop and the
write-back under the lock; more turns repeat the same steps.  The client only copies
colours, so two faces of two squares suffice for a decoder and a drawer to pass
each other within a face and between faces; two cubes that differ everywhere make a
stale square visible.

In `connections` two slots make a lower one, whose child inherits the other's
ends, and a higher one, whose child does not; the second command is the write
that meets the reset which the first one caused.  A third user only waits (777 934
states, no error).  In `end_to_end` the bound of three frames is the number of
commands, and the other client's command fills the slot's pipe before the
client connects.  With three slots there is one on either side of the client's:
a lower one, whose child may have died, and a higher one, which may stay empty
and clog the broadcaster after the client has been served.  One square a face is
enough here, because drawing square by square is the business of `client`; the
two turns, which do not commute, tell the cubes apart.  With two squares a face
and two slots it was checked for the second slot (510 817 states) and the first
(682 022 states).

**Fairness.** Weak fairness for the steps of the program's own threads: the
kernel runs a runnable thread in the end.  There is none for users (connections,
keys, departures, Ctrl-C), for the server as seen by `RubiksClient`, or for a
thread in front of a full pipe.  A mutex is not fair in general; weak fairness is
enough here because commands are finitely many and the contention ends.  In
`ConnectionLife` a connected client also goes on reading its frames
(`ReadFrame`), which its socket thread does whatever its user does; each thread
of a child has its own fairness condition, and the choice between a refused
write and `SIGPIPE` is left open.  In `EndToEnd`, each process's threads are
fair, the children of other clients that live go on reading their pipes (so
their clients read their sockets, as `ReadFrame` above), and nobody makes the
user connect or press a key.  `CubeReachesScreen` has to name what can stop it:
the end of the client (`Alive`), the death of the server, and `Clogged`, the
state in which the broadcaster is in front of a full pipe which nobody empties.
Without the last one it fails: that is item 1 of section 4, met from the
client's side.

**Deadlock** is not an error in these models: a server without commands, a
program that has been quit and a client or server that has ended have no next
step.  What waiting the code does not intend is stated as liveness instead.

## 4. Where code and documentation disagree

1. **`server_empty_slot`** (`ConnectedClientsConverge`) — `server_thread_wait_and_broadcast` writes to all
   `N_FACES` pipes, connected or not.  The pipe of a slot that nobody takes
   fills up (55 bytes a frame: after about 1 191 commands on Linux), the
   broadcaster blocks in `fputs`/`fflush` for good, and no client is told
   anything any more.  `src/server/rubiks_server.h:156` promises the new state
   to all clients.
2. **`client_garbage_face`** (`DrawsAFace`) — a cube that arrives before the first digit key is
   drawn with an uninitialised face number; `src/server/rubiks_client.h:121`
   says 0–5.  A client that connects late meets this at once, because its pipe
   holds all frames so far.
3. **`client_quit`** (`QuitLeavesCurses`) — `q` does not leave curses for good: the view thread goes
   on, and its `refresh` brings the screen back (`README.md:77`).
4. **`client_eof`** (`RunCubeReportsEOF`) — `run_cube` never returns -1, so the client's main loop
   calls it again on the descriptor its socket thread has closed, and the client
   always ends through `error_and_exit` (`src/server/rubiks_client.h:73`).
5. **`broadcast_after_departure`** (`BroadcastSurvivesDepartures`) — the first client leaves while its child is
   starting; the child fails to open the closed socket and exits; the next broadcast finds no
   reader on its pipe, and `SIGPIPE` kills the server under the client that
   stayed (`src/server/rubiks_server.c:158`; `src/server/rubiks_server.h:140`
   says the cube is sent to each client).
6. **`child_comes_back`** (`ChildComesBack`) — `src/server/rubiks_server.h:113` has
   `accept_client` return -1 in the child, the value on which the loop of `main`
   ends (`run_server.c:49`).  It does not return there at all: both threads of a
   child close the one socket (`rubiks_server.c:319`, `:356`), the second to do
   so fails, and `error_and_exit` ends the process.  If it did return, it would
   be with 0 (`rubiks_server.c:108`), and the child would accept clients as a second
   server.  `NoChildReturns`, which the run `connections` checks and section 5
   proves, says that this never happens; it holds by what happens to the
   descriptor, not by what the header describes.

Three more, seen while modelling and without a run of their own: a child outlives
its client, since its pipe thread keeps waiting for the server although
`src/server/rubiks_server.h:106` says it runs until the client is gone; a slot
is never given back, so the six of `README.md:63` are six in the life of a server;
and `src/server/run_client.c:26` says "until either the client or the server
closes its stream", while after `q` the client waits for its socket thread, which
only the server's closing ends (`rubiks_client.c:115`).  A running server never
closes first (`ConnectionStands`), so that such a client ends when the server
does (`ClientEnds`).

## 5. What is proved

Every invariant, action property and refinement that a passing run checks is
also a theorem; what is under fairness is not (see the end of this section).

**The cube and the line.** `RubiksCubeProofs` proves, from the tables of
`make_face`, that a turn takes stickers to stickers, that `rotate` makes a cube
of a cube (`RotateType`) and that it leaves the middle of every face alone
(`RotateKeepsMiddles`).  `RubiksServerProofs` begins with the step of the
encoding loop (`EncodeFaceHolds`) and with the fact that a buffer with six faces
and its ending is one line which decodes to the cube (`TerminateSpells`), for
every cube.

**The single-device program** (`RubiksViewProofs`), for shuffles of any depth
and any number of keys:

* `TypeCorrect`: `Spec => []TypeOK`.
* `SolvedCorrect`: `Spec => []SolvedIffUniform`.  `is_solved` compares with the
  face's own colour and a player looks for one colour; the two agree only because
  the middles never move, and that is what the invariant adds to the types.
* `ImplementsPhysicalCube`: `Spec => IsPhysicalCube`.  The squares of the screens
  and the places on the sides of the block in space correspond one to one
  (`StickersArePlaces`).  The squares that an adjacency table names lie along the
  rim of the layer of its face, in the order of the table (`EdgePlaces`), and
  there are no others in that layer (`RimIsEdges`, `LayerIsMoved`).  So the square that
  `rotate` copies from is the one that a right angle about the axis of the face
  brings there (`SourceInSpace`), for the loop over the neighbours (`EdgeMoves`)
  and for `transpose_face` (`OwnMoves`).  What remains is to carry this from
  squares to cubes (`RotateTurns`).  The coordinates of six faces and nine squares
  are written out and compared case by case; no cube is enumerated.
* `KeysAreTurns`: `Spec => KeysTurnTheFaceShown`, from the same lemma.
* `OddTurnsShuffle`: `Spec => []OddTurnsNeverSolve`.  The property says nothing
  of a cube that is not solved, so the invariant, `CornersFollow`, says where the
  pieces are: there is an arrangement of the eight corners which the colours of
  the cube show, and the parity of its inversions is that of the turns made.  A
  turn takes four corners in a cycle (`TurnsAreCycles`, `RotateRearranges`), which
  changes that parity (`CyclesAreOdd`), and the solved cube shows the corners in
  one arrangement only, the one in order (`SolvedShowsOnly`).  The arrangement is
  behind a quantifier because the program does not have it: it stores colours,
  not pieces.

**The server**, for any number of slots, pipes of any capacity, shuffles of any
depth, any commands and any number of them.  The assumptions are those of the
module: there is a slot, a pipe holds a line, a shuffle makes at least one turn,
broadcaster and listeners are different threads, users send lines that
`encode_user_input` makes.  In `RubiksServerProofs`:

* `TypeCorrect`: `Spec => []TypeOK`.
* `FramesCorrect`: `Spec => []FramesAreWhole`.
* `AnnouncementCorrect`: `Spec => []NewestStateIsAnnounced`.

The inductive invariant is `Inv` of `RubiksServer`.  `FramesAreWhole` alone does
not survive a write: the message has to be a state of the history
(`EncodedSoFar`), which holds after the unlock because it was the cube under the
lock, which was the newest state of the history because no listener was inside
(`CubeIsNewestState`), which needs `MutualExclusion`.  `NewestStateIsAnnounced`
needs that a broadcast under way is of the newest state or a further wake-up is
stored or about to be, and that the slots served so far have its version
(`BroadcastIsNewest`).  There is one lemma per part of the invariant, with one
step per action or group of actions that the part cannot tell apart.

In `RubiksServerStreamProofs`, about the stream of frames of a slot, those its
child has read and those in its pipe:

* `HistoryIsShared`: `Spec => []ClientsSeeTheSameHistory`.  The streams of any two
  slots are the same up to the frame under way, and no stream goes back.  The
  invariant on top of `FrameInv` is `StreamInv`: outside of the broadcaster's
  loop all streams are equal, inside it those of the slots served are one frame
  longer (`StreamsAgree`); no stream holds a version newer than the one the
  broadcaster has (`StreamsAreOrdered`).  Only `Write` extends a stream; a child
  that reads moves a frame within it.
* `EveryCommandIsBroadcast`: `Spec => []OneFramePerCommand`.  Frames in a
  stream, wake-ups stored, listeners about to post and the broadcast under way
  add up to the commands carried out (`FramesMatchCommands`): an unlock adds a
  listener about to post, a post turns it into a wake-up, the broadcaster turns
  that into a broadcast, and the write into a frame.  And the lines in the pipes,
  the listeners that carry a command and the commands carried out add up to those
  sent (`NoCommandIsLost`).  Both are inductive on top of `Inv`; the work is to show
  that each step moves exactly one element between finite sets.

In `SharedCubeProofs`:

* `ServerIsSharedCube`: `Spec => IsSharedCube`.  The unlock is the step that makes a
  legal move of the shared cube, a child that reads a frame is a client that
  watches it, and nothing else is visible.  The history shows only the cube at
  each unlock, so the invariant, `CommandUnderWay`, has to follow a command
  through the critical section: the cube is the newest state when the mutex is
  taken; during a shuffle with `d` turns to go, all turns but `d` of a permitted
  shuffle have been made; while faces are written back, the copy is the cube that
  will be announced and the faces before `copied` are the copy's already.  Inside
  the mutex a listener is alone (`MutualExclusion`), so that only its own steps
  matter.  What a shuffle may leave behind is defined by recursion over its depth;
  `ShuffledSteps` proves the two equations of that definition, by induction over
  the set of numbers for which they hold (the least number outside of it, by
  well-foundedness, would have a predecessor inside).

**The client.** `RubiksClientProofs`, for every number of faces and squares, every set of
colours and of cubes the server may send, every bound on keys and frames:

* `TypeCorrect`: `Spec => []TypeOK`.
* `ScreenCorrect`: `Spec => []QuiescentScreen`.

The assumptions are those of the module: a cube has at least one face and one
square, `InitialCube` and `CubesSent` are cubes, `OutOfRange` is no face.

`QuiescentScreen` speaks of a client at rest and is far from inductive.  The
invariant that carries it, `Inv`, adds to the types: the drawing cursor is inside the
face while drawing (`CursorsInRange`, without which the types are not inductive);
the squares in front of the decoding cursor are those of the line, and outside
of decoding the cube is the last one received (`DecodedSoFar`); the view thread
draws a face that is no longer the chosen one only while a redraw for the choice
is pending (`DrawsTheChosenFace`); and a square of the screen is right unless a
redraw is pending or the view thread has yet to reach that square in this very
drawing (`NoStaleSquare`).  The argument is that every change is followed by a
post, and a redraw that begins after the change sees it.  `NextInv` goes through
the actions; `DecodeSquare` (the cursor moves, to the next face or out of the
loop) and `DrawSquare` (before, at and behind the cursor) are the two with work
to do.

**Connections** (`ConnectionLifeProofs`), for any number of slots, of users, of
commands and any capacities:

* `TypeCorrect`: `Spec => []TypeOK`.
* `ChildrenNeverReturn`: `Spec => []NoChildReturns`.  Both threads of a child
  close the same connection; the one that is second fails and ends the process,
  so that nobody gets back to the child's branch of `accept_client`.  The part of
  the invariant that says so is `OneThreadCloses`: at most one thread is past its
  first `fclose`, and then the child has no descriptor of the connection left.
* `ConnectionsStand`: `Spec => []ConnectionStands`.  A child's thread leaves its
  loop only at the end of a file.  The pipe towards the client has a writer as
  long as the server runs (`ServerHolds`), the socket has one as long as the
  client stays, and the child itself holds the writing end that its listener
  reads (`ChildStands`).
* `ServerSurvives`: `Spec => []ServerKilledOnlyAfterFirstClient`.  The first
  child inherits the reading ends of all pipes towards clients, the later ones
  having not been closed yet when it is forked (the last part of `ChildStands`).

The inductive invariant is `Inv` of `ConnectionLife`; `ForkedInOrder` and
`ResetAfterLeave` (only the departure of a client resets a connection, so that
none of those who stay meets `SIGPIPE`) are the parts not yet named.

**The whole way** (`EndToEndProofs`), for any number of faces, squares, slots,
keys and commands, any slot of this client, any `rotate` and any `Shuffles` that
make cubes, and whatever becomes of the other clients and their children:

* `ServerTypeCorrect`: `EndToEndSpec => []ServerTypeOK`.  The server makes an array
  index of the digit in a command without looking at it (`rubiks_server.c:379`).
  That it is a face's is up to the client, at the far end of a socket, a child
  and a pipe, whose `cube_face_id` starts out as garbage; the invariant follows
  the command there (`OnlyLegalCommands`, `NextLegal`).
* `ScreenIsTheCube`: `EndToEndSpec => []ScreenShowsTheCube`.

`EndToEndInv` is the client's invariant, which every step of the composition
keeps (a step of the client is a step of `RubiksClient`, a frame forwarded is its
`ServerSends`), with `ServerTypeOK` and with `NewestIsUnderWay`: unless the server
has been killed, the newest cube on the way to the screen is the server's, or the
broadcaster is still to be woken.  Where the newest cube is depends on the loop:
in the message, while the loop has not passed this client's slot
(`served <= client_id`), else last in the slot's pipe, else in the socket, else in
the client.  `WriteKeepsNewest` is the step that hands it over.

**Only model-checked:** what is under fairness, which TLAPS does not reach:
`ClientsConvergeUnlessClogged`, `ScreenCatchesUp`, `ClientEnds`,
`BroadcastCompletes`, `LastClientLearns`, `CubeReachesScreen`.  The violations
of section 4 are shown by their runs.

## 6. Not modelled

* Memory management, `printf` diagnostics, colours and the geometry of the
  terminal.
* Setting up sockets: `socket`, `bind`, `listen`, `connect`, `getaddrinfo`
  (`server_util.c` and the first lines of both programs).  They run once, before
  any thread exists, and keep no state of the program's own.
* Failures of `malloc`, `fork`, `pthread_create` and `fdopen` for lack of
  resources; they end the process.
* A line written to a pipe or socket in parts.  Each has one writer and one
  reader who waits for the newline.
* A `fork` between `fputs` and `fflush` of the broadcaster
  (`rubiks_server.c:158`).  The child then has a copy of the buffered frame, and
  if it ends through `error_and_exit`, `exit` writes it into that slot's pipe once
  more, later.  `RubiksServer` has no ends of children, `ConnectionLife` no
  contents of frames.
* What a data race inside ncurses does, which two threads call at once.

## 7. What is left

Every component whose state threads or processes share is modelled.  The frame
that `fork` copies (section 6) would need `ConnectionLife` with versions in its
pipes.  What would extend the proofs: that the two directions of a turn undo each
other, and that every cube the program reaches has nine stickers of each colour,
for which the correspondence of squares and places is there already
(`StickersArePlaces`).
