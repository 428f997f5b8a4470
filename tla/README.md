# Riftshadow: models, checks and proofs

Riftshadow (`src/code`) is a multi-user game server in C++ grown from ROM: one
process, one thread, a loop that four times a second reads the sockets, runs at
most one command per connection, moves the world and writes the output. There
are no data races. What is hard is *re-entrancy*: almost any call can, several
frames down, destroy the character, object or connection its caller holds; any
write can overflow a buffer; a script can schedule a call that names a character
who will be gone by then; and every player can be half way through several
logins at once. The recent work in the repository (handles, owning lists with
registered walks, deferred closing, the rewritten event queue) exists to make
those cases safe, and is what these modules are mostly about.

To check a module: `tlc -config X.cfg MCX.tla`. To check the proofs, `tlapm` on each
of EntityStorageProofs, QueueProofs, RoomOccupancyProofs, ConnectionProofs, CompanyProofs,
LimitsProofs, BelongingsProofs and CollectionProofs.

## Inventory

| Component | State | Operations | Hard part | What makes it correct | Modules |
|---|---|---|---|---|---|
| Generational handles, `stdlibs/handle.h` | slot table, free list, live count | Add, Remove, Deref | slot reuse; the end of a generation counter | an expired handle resolves to nothing forever; no slot is lost | HandleRegistry, SlotMap |
| Walks over owning lists, `entity/list_cursor.h` | the list; one cursor per walk in flight | start, step, end a walk; link, erase | bodies that erase any element, in nested walks | no cursor dangles; nobody is skipped or met twice | ListWalk |
| Entities, `recycle.c`, `db.c`, `handler.c` | the two above, and each entity's own handle | new_*, link, free_*, extract | one owner before linking, another after | live, registered and listed agree | EntityStorage |
| Event queue, `queue.h`, `queue.c` | tick, buckets, character index | AddToQueue, ProcessQueue, HasQueuePending, DeleteQueuedEventsInvolving | callees that queue, cancel and extract while a bucket drains | each event runs once, in order, on its tick, or is cancelled; none names someone gone | EventSchedule, EventQueue |
| Room occupancy, `handler.c` | `in_room`, `next_in_room`, `room->people`, `room->light`, `area->nplayer`, `area->empty` | char_from_room, char_to_room, extract_char, (un)equip_char, area_update | two functions a hundred callers must pair, some through the event queue | lists and counts agree with `in_room` | RoomOccupancy |
| Object placement, `handler.c`, `act_obj.c` | `carrying`, `contents`, `contains`, `carry_number`, `carry_weight` | obj_to_*, obj_from_*, extract_obj, and the commands that call them | nesting; totals adjusted and never recounted | an object is in one place; totals are what a recount gives; a save brings back what it took | ObjectLists, Belongings |
| Equipment and affects, `handler.c` | what is worn, immunity flags, modifiers, the affects | equip_char, unequip_char, affect_*, reset_char | several givers of one flag; a modifier on which wearing depends | a flag is set iff something gives it; the modifier is the sum of its givers | Equipment, Belongings |
| Followers and fights, `act_comm.c`, `handler.c`, `fight.c` | `master`, `leader`, `pet`, `fighting`, AFF_CHARM, the affects of charm | follow, charm, recruit, buy, strike, die, extract | deaths that set off extractions; walks of a room by hand | both ends of a link agree; nobody is charmed by, or fights, what is gone | Company |
| Game loop and connections, `gameloop.c`, `comm.c` | `descriptor_list`, output buffers, `closePending` | poll, accept, input, update, close, flush | overflow deep in a walk; closings that cause overflows | a marked connection is closed within its pulse, after silence; the pulse ends | PulseLoop |
| Command queue, `gameloop.c`, `interp.c` | `pcdata->queue`, `write_next`, `pending`, the wait | read, put by, run, clear, force | a queued command that clears the queue; lines read past waiting ones | a bounded queue; lines run in order, each once or answered | LineQueue, Commands |
| Login and players, `comm.c`, `recycle.c`, `act_comm.c` | connection state, bodies, `char_list`, player files | nanny, check_playing, check_reconnect, close_socket, save, load, quit, delete, purge, rename | several logins of one player, link loss and stale copies | one body per player; each body owned once; no entry with a superseded copy | Login |
| Player file format, `save.c` | text files | save_char_obj, load_char_obj | order and depth of nested objects; versions | what is written is read back | Belongings, Login |
| Item limits, `db.c`, `save.c`, `comm.c` | `limcount` per prototype | create, extract, read a file, quit, refuse, reconnect, recount, boot | hand-kept adjustments that must pair across modules, and copies read at logins | the count is the number of objects there are; resets never exceed `limtotal` | Limits |
| World update, combat, movement | spread over characters | periodic walks, rounds, deaths, commands | they call everything above | where they touch the above | Belongings, Company, RoomOccupancy |
| Spells, skills, classes, scripts | spread over characters | hundreds of functions | the same | - | not modelled as such |
| Area files, resets, OLC, SQL repositories, notes, bans, votes, help, config, logging | files and tables | sequential | I/O | - | not modelled |
| `admin/` (Laravel), `area/` data, rapidjson, spdlog | - | - | - | - | out of scope |

How they interact: the loop (PulseLoop) reads each connection's line (Commands), runs
commands and logins (Login) and the update handler, which drains the event queue
(EventQueue) and walks the global lists (ListWalk). Each of these may extract
characters, which goes through rooms (RoomOccupancy), belongings (Belongings, with
Limits counting what is made and destroyed) and companions (Company), cancels
events, advances walks and expires handles (EntityStorage).

## Modules

The modules are written to be read alone. Each assumes of the ones below it only
what they are checked for: SlotMap is used as *a handle to something gone
resolves to nothing* (`Freed` in Company sets it to NoOne), ListWalk as *what is left
of a walk drops what is erased* (`todo` in PulseLoop), EventQueue as *the entries of
one tick run in order with no command between* (`queued` in RoomOccupancy). Where a
property has a fault for its mutant, the fault stands beside the definition it
replaces and is not used.

### HandleRegistry, SlotMap

`HandleRegistry` is what a handle promises: a set of handles ever issued and a
partial function from them to entities, from which a handle can only drop out.
`SlotMap` is the code: `slots`, `freeHead` and `liveCount` are the members of
`SlotMap<T, GenT>`; indices start at 1 so that 0 is `NO_SLOT`; `issued` is a
history variable, the handles given out so far. `Remove` is split into its
outcomes: a stale handle, a slot recycled, a slot retired at its last generation
(`MaxGen` is `numeric_limits<GenT>::max()`, not a bound of the model).
`MaxSlots` bounds the vector.

### ListWalk

`walks` is the stack of `OwningListWalk` objects in flight, the registry's vector
and the C++ stack being the same thing here: a walk is registered for its
lifetime. `owed` and `visited` are history: the elements linked when the walk
began and not yet reached or erased, and those it has met. `Advanced` is
`OwningCursorRegistry::Advance`. Elements may leave and come back: a list node is
new each time, so `Erase` takes the element out of `visited`. Bound: `MaxDepth`.

### EntityStorage

The composition of the two. The constructor registers an entity and gives it `self`;
linking puts it on the list, at either end (descriptors go at the back); freeing it
advances the walks, erases the node and, with the node, destroys the entity, whose
destructor removes the slot; what never was linked is deleted outright. The same
address may be used again at once. One list with its map stands for each of the
three, of characters, objects and descriptors. Every step is a step of SlotMap or
leaves it alone, and likewise of ListWalk, so the properties of both are checked (and
proved) of the composition, and `RegisteredOnce` ties them together.

### Lists

`Without(s, gone)`: what is left of a list when elements are erased. `After(body, r, s)`:
what a walk along a list makes of a state, one element after another. Both are recursive
functions, so that they can be proved about (`CollectionProofs`).

### EventSchedule, EventQueue

`EventSchedule` is a set of pending events, each with a tick and a place in it;
a tick passes only when nothing is due. `EventQueue` is the code, with
`ProcessQueue` taken apart: the pulse begins, looks at an entry, skips or runs
it, the callee returns, the bucket is erased. While a callee runs (`drain.at =
"call"`) and between pulses, game code may queue, cancel and extract.
`ImplementsSchedule` maps the live references to pending events. Characters have
a `fate` because an entry captures raw pointers: running an entry that names
someone gone reads freed memory. Bounds: `MaxTick`, `MaxPerTick`.

### RoomOccupancy

`world` is one record of the fields of characters, rooms and areas, so that the
code's composition (`char_to_room` after `char_from_room` after stripping) is
function composition. `Unlinked` follows the list as the code does: when the
character is not on it, nothing happens. `Die` is raw_kill of a player: corpse,
altar, recall. `BurnOut` dims a room twice, as char_update and unequip_char do.
Left out: `room->move_progs` (written, never read), glowing worn items other than
lights (same arithmetic), furniture, gravity wells and entwining (callbacks that
move others), and the light of lamps on the ground, which gives none. The scripts that
move a player are kept out of `Spec` and in `ScriptedSpec`.

### PulseLoop

One action per body of each walk of a pulse; `phase` is the place in
`CGameLoop::GameLoop`, `todo` the rest of the walk, the list `Without` what the walk has passed. `WriteTo` is what a set of
people may be sent: any of them, and any of those may overflow, which empties
the buffer and marks the connection. `Command` abstracts hundreds of commands to
what the loop can tell: which connections it closes, whether it brings its
character into play, and whom it writes to. Left out: reboot (every connection
is closed and the loop ends), and the editors; the queue of a lagged player's commands is Commands'.

### LineQueue, Commands

`LineQueue` is a bounded queue that may be given up whole. `Commands` is one player's
`pcdata`: the array `queue`, its index `write_next`, the flag `pending`, the wait, and
the link. A pulse (`Pulse`) is ProcessConnectionInput: count the wait down, run the
queue's first line and shuffle the rest up, or read one line and put it by, refuse it
or run it. `Others` are what the rest of the world may do in between: lag the player,
free them, give a command in their name (do_force, do_order, a delayed command). A
command is told apart by what it does to the wait and the queue: `look`, `bash` (which
lags), `dash` (which runs another within), `quit`. A dash that ends in `qc` clears the
queue under the shuffle, which then writes at index -1: `Sound` is false from there,
nothing more is promised (`Broken`), and each property but `InTheQueue` asks only of
states before. `ran` and `gone` are history. Bounds: `MaxTyped`, `MaxMeddling`.

### ObjectLists, Equipment, Belongings

One record `b` holds a player's belongings, the room's, the containers' and a cabal
guardian's, so that a handler of the code is the composition of the functions it
calls. `ObjectLists` has the three lists and the two totals of a carrier, which
obj_to_obj and obj_from_obj carry up through nested containers. `Equipment` has what
is worn and the player's affects, in list order; `affect_modify` may take off a weapon
that has become too heavy, which strips the weapon's own affects: the recursion is the
code's, cut as the code cuts it (`static int depth`), so that one level of it is written
out, as `busy_strip` and `busy_unequip`, and nothing here is RECURSIVE. The immunity flags stand for all
bitvectors and the strength modifier for all modifiers, the one on which wielding
depends. `stale` records that a loop has gone on to an affect that was erased under it;
`strayed` that a cabal's item was handed to its guardian from where nobody carried it.
After either the code's behaviour is undefined (`Undefined`). `Belongings` has the
commands, ticks, death and the player file: a save writes objects backwards by depth and
a load reads them into the last object of the depth above (`Quit`, `Login`). What an
object is written as is found from the deepest level up (`Branches`), what is inside one
by opening as often as there are objects (`Within`). Each walk of the code is `After` of
the body of its loop; the one in make_corpse, whose saved successor may be moved by the
body, carries that successor along (`Walk`). Bounds:
`MaxAffects`, `MaxInRoom`; `MaxNumber` and `MaxWeight` are the code's limits, small.

### Company

One record `w` of handles between characters in one room and elsewhere: `master`,
`leader`, `pet`, `fighting`, who is `engaged` (position FIGHTING), `charmed` (AFF_CHARM)
and under which affects. `die_follower`, `stop_follower`, `stop_fighting`, extract_char
and raw_kill are operators on it, in the order the code calls them; a death extracts the
charmed followers, each of which has followers. The code's recursion is a function,
`Deep`, of how deep the calls may still nest: `E[r][c]` is what the calls one level further
in make of `r` when `c` is extracted. No call is ever cut short, because a follower taken
along is a mobile whose own following ends before its followers are looked at, so the
calls nest no deeper than there are mobiles; that is proved, not assumed. Freeing a character sets every handle to
it to NoOne. What handles do not protect are the pointers a caller holds across a call:
`stale` says which was read after being freed. `strays` are the pets that a refused login
leaves in the lists. Bounds: `MaxCast` at once, `MaxAffects`, `MaxAway`; `CharmLimit` is
the code's. Left out: secret following (gsn_trail) and players' groups.

### Login

A connection is `Closed` or in one of five states; creation's questions are one,
the pages of news another. `body` is what is at an address, `character` a
descriptor's handle to one, `charList` the players' part of char_list in its
order, front first, because check_reconnect takes the first match. `new` is level
0; `old` and `purged` are history: whether the player has saved since this copy
was read, and which players do_purge has removed. A save puts every unlinked copy
behind (`Outdate`). Left out: bans, wizlock, newlock and denied players (each is
`CloseSocket`), switched immortals and shape changes (a second name on a
connection), pets, loading a player with `pload`. `Rename` is kept out of `Spec`
and in `SpecRenaming`, because what it breaks would hide everything else.

### Limits

One prototype. Objects are interchangeable, so a place is a number: `ground` (rooms,
corpses, mobiles), `carried` by a player in the world, `file` of a player, and
`login`, the bodies that wait at login prompts with copies of what a file held.
The count is meant to cover `Existing`: the objects in the world, and for a player
who is not in it those in the file. Reading a file adds each object and takes it
off again (`fread_obj`), so a body freed at a prompt must be counted in first,
which the wrong password does and the other ways out do not. `Drift` is how far the
count is from `Existing`; `Unsettling` names the steps that change it: a login given
up, cut off or taken over, a copy entering after its file has been written (after a
purge only), a deletion (what the file held stays counted), a purge that does not
save, and do_llimit's recount (which counts a player in the world by their file).
`CountKept` is that no other step does, and that a boot ends it. `loose` is history;
`LimitHolds` says that without those steps, and without objects created past the
limit, the limit is kept. `Novice` are the players below level 10, whose limited
objects are extracted when they quit, before the save, and again when they enter.
The stages of a login between prompt and world are Login's; that a player is not in
the world when they enter is its `OneBodyPerPlayer`. Left out: do_limcounter's
setting of the count by hand, keys and maps (which are not saved), objects that stay
with their owner in death, a player's passing from novice to not, and the inside of
the one container (vnum 31) that takes limited objects: every other refuses them.

## Runs

| Run | Instance | Shows |
|---|---|---|
| storage | 3 entities, 3 slots of 3 generations, 2 nested walks | no slot lost, no expired handle comes back, the list holds what is live, walks keep their place. Three generations reach retirement with reuse before it; three slots give free lists of every order; two walks at one element and at different ones are among the states |
| queue | a mobile, a player, timers -1, 0 and 2, 2 per tick, 3 ticks, fair | the index is exact, a cancelled entry never runs, nothing that can run names an extracted mobile, the draining bucket only changes by cancellation, the schedule is implemented, nothing is stranded |
| rooms | 2 mobiles, 2 players, 3 rooms, 2 areas, 1 lamp each | lists, counts, the sleeping flag and light. Two areas and three rooms give moves within and across areas; four characters give removal from the head, middle and end of a list |
| belongings | 6 objects (a weapon that needs strength and brings an affect, a cabal's ring that gives strength, 2 containers, a corpse, the pit), 4 spells, 2 affects at once, carrying 2 items of weight 4 | one place per object, totals, flags and the modifier are what a recount gives, what is worn is held, and a player comes back with all the file took. Two containers nest; two spells share a flag |
| belongings_expiry | the same | *violated*: `NoStaleAffect` |
| commands | a queue of 3, waits of 3 pulses, 5 lines, 2 interventions, fair | index, flag and array agree, no line overtakes another, each is waiting, run or given up, a bounded queue is implemented, and every line is answered. Five lines and three slots give a full queue and a refusal |
| commands_cleared | the same | *violated*: `InTheQueue` |
| company | 2 mobiles, 2 players, at most 3 at once | pets follow their owners, the charmed have masters, fights name the living. Three give a master, a pet and an enemy, and a follower of a follower |
| company_sweep | the same | *violated*: `SuccessorStays` |
| pulse | 3 connections, fair | all that overflow are closed by the end of the pulse and hear nothing more. Three connections let a closing mark one the sweep has passed while a third is being closed. The pulse completes |
| login | 3 connections, 4 bodies, 1 name, 3 numbers, at most 2 rows | one owner per body, no orphan, one body per player, no entry with a superseded copy, and a file that has been rolled back is a file whose player is still in the world |
| limits | 2 players, one a novice, 2 connections, limit 2, at most 2 in a place | the count keeps its distance from what there is through everything but the steps named, a boot sets it right, and the limit holds. With two in each of three places there can be twice the limit; two connections give two logins of one player at once |

Each property of a passing run has a mutant of the code, named as a fault beside
the definition it replaces, that violates it.

### What the violations show

*belongings_expiry.* `char_update` saves `std::next` before it ends an affect
(`update.c:1483`). The end of the affect can make a wielded weapon too heavy,
affect_modify takes it off, and unequip_char strips the weapon's own affects from the
same list, the saved one among them.

*commands_cleared.* A queued dash that ends in `qc` clears the queue within
`interpret`; the shuffle that follows takes `write_next` from 0 to -1 and writes
`queue[-1]` (`gameloop.c:239`). From there on lines are put by ahead of the array, and
`pending` is never cleared again.

*company_sweep.* `mob_hit` walks `room->people` with a successor saved before the blow
(`fight.c:673`). The blow may kill a player; raw_kill extracts the player's charmed
followers, and the walk goes on to one of them.

### Known, and not among the runs

These follow from the models too; each can be seen with TLC by checking the property
named, in place of those of the run's .cfg.

- Belongings, `OnePlace`: `update.c:1687` returns a cabal's item to its guardian by
  obj_to_char while it still lies in the room or a corpse, so it is on two lists.
- Belongings, `ModifierExact`, with a modifier on the affect of the weapon (`SpellMod` of
  `keen` set to 1, and MCBelongings' `InstanceAssumption` left out): take the sword, cast
  giant strength, wield it, quit and log in. reset_char, which is to "restore the character
  to his/her true condition" (`handler.c:795`), adds the affect once from the object it is
  on (`handler.c:833`) and once from the list of affects (`handler.c:845`). If a weapon
  proves too heavy in the middle of that, it is taken off with its modifier subtracted
  before it was added. `AppliedOnce` says of an instance that neither can happen; the run's
  is such a one, and the theorem about `ModifierExact` assumes it.
- EventQueue, `EventsNameThePresent`: extract_char cancels queued events only for
  mobiles (`handler.c:2308`), though `queue.c:114` takes it to do so for whoever leaves.
  do_quit_new refuses a player with events pending; do_purge and the duplicate-session
  loop at the end of do_quit_new extract without asking.
- RoomOccupancy under `ScriptedSpec`, `ScriptMovesPlayer`: three scripts queue
  char_to_room before char_from_room on one tick; the second undoes the first, the player
  is nowhere, and the old room's list still runs through them.
- Login, `RowPerName`: two connections create one new name together; the second entry adds
  a row and overwrites the first player's file. Under `SpecRenaming`, `OneBodyPerPlayer`: a
  login under the old name that waits at the password prompt survives a rename and enters
  as a second body of the player.
- Limits, `ReconnectBalances`: check_reconnect counts out what the file held and in what the
  body in the world carries, which are equal only if nothing changed hands since the save.
- Company, `stale = "killer"`: raw_kill goes on to use its killer after extracting the
  victim's followers, of whom the killer may be one (`fight.c:3414-3420`).

### Observed while reading, and not modelled

- equip_char puts flags on with OR (`handler.c:1945`) and unequip_char takes them off with
  XOR (`handler.c:2010`): with a second giver of a flag the first's removal clears it.
  `FlagsFollow` therefore asks only of flags with one giver.
- A recruiter's `enlist` puts AFF_CHARM on the recruiter, and its expiry ends the
  recruiter's own following.
- A refused login leaves the pets it loaded in char_list (`comm.c:1487`): `strays`.
- A player's corpse in an explore room whose owner is out of the game when its time comes stays
  there for good: nothing is done with it, and its timer has run out (`update.c:1722-1760`).

### Fairness

queue assumes `WF(Drain)`: `update_handler` calls `ProcessQueue` every
`PULSE_IPROG_PULSE` pulses (once a second) for as long as the server runs, nothing else
can run while it drains but the callees it calls, and a callee returns. It says nothing
of commands or extractions. `currentTick` is bounded by `MaxTick`, so only events
due within the bound are asked about. pulse assumes `WF(Next)`: one thread,
both `select` calls have timeouts, and there is no other scheduler. That is the
whole of it: in particular a write may always overflow again. commands assumes
`WF(Pulse)`: the loop comes round to every connection that is up. Others may lag the
player only `MaxMeddling` times: a player lagged for ever is never heard.

### Deadlock

Deadlock is checked in every run. The queue stops at `MaxTick` but refused timers
(`AddRefused`) and cancellations remain possible, as they are in the code. What follows
undefined behaviour is a step that changes nothing.

## Theorems

Each holds for every value of the constants that the named assumptions admit; nothing is
taken on trust.

*EntityStorageProofs.* First the slot map by itself. `SlotsAccounted` says that there is a
list of distinct slots, starting at `freeHead` and linked by `nextFree`, whose slots are
unoccupied under a generation no caller was given, and that every other unoccupied slot is
spent. It is not inductive by itself: that the generation a slot is recycled under is new,
and that the handle just removed does not come back, need `IssuedInv`: no issued handle is
ahead of its slot's counter, and an occupied slot's own handle has been issued. A slot taken
from the head of a free list leaves a free list, a slot put on it leaves one, and a list
that misses a slot is shorter than the vector (the library's pigeonhole theorem). From the
invariant: `TypeOK`, `SlotsAccounted`, `LiveCountExact`, the action property
`ResolutionOnlyDecays` (an expired handle stays expired), and `ImplementsRegistry`, step by
step. Then the walks. `Sound`: a walk's successor is on the list, what it still owes lies
from that successor on, and what it has visited lies before. The order is what makes it
inductive: `PushBack` adds to the part that is ahead of every walk, `PushFront` to the part
behind, and `Advanced` moves a successor by one. Last both together: every step of the
storage is a step of SlotMap and of ListWalk or leaves them alone, so what is proved of each
carries over; the new part is `SelfInv`, that occupied slots and the handles entities keep
name each other. Every property of the run `storage` is a theorem.

*QueueProofs*, of EventQueue. What can still run is restated over any buckets and any place of the
drain. The strengthening is that no bucket lies behind the tick being drained, so that a
callee's new event never lands in the bucket being walked, and that the index holds exactly
what can still run. `ImplementsSchedule` is proved as a refinement, each action to an event
scheduled, run, cancelled or a stutter.

*QueueProofs*, of Commands. `QueueExact` and `Accounted` are proved together with `Ascending`: the
lines in the array stand in the order they were typed, after all that ran. Without it the
shuffle could not be shown to keep `InOrder`. `ImplementsQueue` maps the first `write_next`
slots to a sequence.

*RoomOccupancyProofs.* `RoomListsExact` speaks of the first so many links from
`room->people`; what makes it inductive is `Chain`: for each room there is a sequence
without repetition whose elements are exactly the characters with that `in_room`, each
linked to the next and the last to nobody. Unlinking at the head and in the middle is
`Without` on that sequence (the one difference between the two branches of
`char_from_room`), linking puts the arrival in front, and a room no step names keeps its
sequence because its characters keep their links. The counts are cardinalities of the same
placing, so they go along; a dimmed room stays no brighter than its lamps because `Dim`
stops at zero and no lamp is counted twice. Each composed operation (quit, death, summoning,
extraction with a light worn) goes through the lemmas of its parts, in the code's order.

*LimitsProofs.* The invariant is `Tight` unless `loose`: what exists is no more than the
count, the count no more than the limit. `LimitHolds` bounds only what exists and is not
inductive, as create_object consults the count. Every place objects can be is a term of a
sum over players or connections, so each step is shown to move the sum by what it moves the
count (`SumChangesByOne`), which is also `CountKept`. A boot, which recounts the files, is
where a whole sum is replaced.

*CollectionProofs.* What `Without` keeps, of lists of any length, how it composes, and what
is left of a walk (`InOrder`); what holds `After` a walk whose every step keeps it; and sums of a function over a finite set, which the community module defines as a fold that
chooses an element at a time: that the choice does not matter (`SumTakesOne`), what changing
one term does, bounds and zeros. Induction over a list or a set is by the least
counterexample, from the library's theorem that the naturals are well founded.

*ConnectionProofs*, of Login. `OneOwner` and `OneBodyPerPlayer` are not inductive. `Held` says who owns each
body; `OneName` that a number goes with one name, so that check_playing, which compares
names, sees every body of a player; `Unplayed` that a new character's number is nobody
else's, so that it need not be looked for; `Entering` that while a connection reads the news
its player is not in the world and no other connection reads it as that player; `Behind` that
a superseded copy or file has its player in the world, who will close it or save over it on
the way out. `LeaveKeeps` and `LoginsClose` carry all but the last through any closing of
connections, whichever command or loss sets it off. `SpecRenaming` breaks `OneName`, which is
how the rename slips past check_playing.

*ConnectionProofs*, of PulseLoop. A walk's rest is the list less what the walk has passed, in its order. That a marked
connection does not outlive its pulse needs the sweep's own invariant: in a pass that has
closed nothing, every marked connection is still ahead, so a pass ends with either nothing
marked or another pass due.

*CompanyProofs.* None of `PetFollows`, `CharmedHasMaster` and `FightingIsLive` is inductive
alone. `Linked` adds that every handle kept resolves, and that a character out of the lists
follows and fights nobody; `Owns` that a pet is a mobile bound by the bit alone, so that no
affect's end can free it; `Waits` that only a pet follows a player who has not entered yet,
and is in no room; `Spelled` that a charm affect means a master. The invariant does not hold
in the middle of an extraction: die_follower takes the bit off a mobile before it extracts
it. `Almost(r, X)` is the invariant but for the characters of `X`, whose bit is off and who
are about to go; each operator of the model is shown to keep it for every `X`, and
`IInv` is `Almost(w, {})`. Extraction is by induction on the depth: `Takes(E, n)` says that `E`
extracts whoever has fewer than `n` mobiles following anyone (`Followers`), that it brings
nobody back and gives nobody a new master (`Shrinks`). Each call one level in has one
follower less, so `Deep` extracts everybody (`DeepTakes`, `ExtractKeeps`). The walks of
die_follower, raw_kill, check_reconnect and mob_hit are `After`, whose rule (`AfterKeeps`)
carries what holds of the elements passed; so after die_follower nobody follows the one who
left, whatever else each of them took along. The invariant holds in the states after freed
memory was read, too, as far as the model goes.

*BelongingsProofs.* The six theorems rest on one inductive invariant, `IInv`: the types,
and, until a guardian is handed what no one carried, `Kept(b, file)`. None of the five
properties is inductive alone, and they are not inductive together either.

- `Good(r, R)` says of a world `r` all that is right with it, `R` being what is in no list
  (the pit, which stands in the room, and in the middle of a handler the object in hand):
  `Housed`, that each object is on one list, that all there is can be reached from
  something outermost, and that the two totals are right; `Sound`, that what is worn is
  carried by the player and by nobody else, is on the slot it goes on, alone there, and
  that no two affects have one address; `FlagsExact`; and `Balanced`, `ModifierExact`
  for worlds where `AppliedOnce` holds and no erased affect has been read. `R` is what lets
  the parts of a handler be put together: obj_from_* moves an object into `R` and obj_to_*
  out of it.
- Weights need `Within`, which is shown to be the least set that holds the object and is
  closed under containing (`InsideIs`); that it is reached after as many openings as there
  are objects is by counting. From that: putting a container into another adds all that
  is in it to everything around it, and to the bearer, and no more; and a container never
  comes to be inside itself.
- Taking off and putting on are shown to leave modifier less `InEffect` as it was
  (`DriftKept`), through the loop of affect_strip and the weapon's fall within it, with
  the affects that loop has erased; for the flags, that `affect_check` gives back exactly
  the shared ones. One weapon can fall in a walk, and none when the modifier does not change.
- A player who is away is the other half. `FileSound` says that a file's objects are an
  `Outline`: each there once, the first at depth 0, and each at most one level below the
  one before it, so that reading it always finds a container open at the level above; that what
  is worn in it is at depth 0, no two on a slot; that its affects have addresses of their
  own; and that its flags are those that its objects and affects give. `WrittenOutline` and
  `SavedSound` are that quitting writes such a file, by induction on the depth; `AllRead`
  that reading one, object by object, keeps the world Good with the rest of the file in
  nobody's hands; `ResetRestores` that reset_char then computes a modifier that balances,
  whatever weapon it takes off on the way; `LoginGood` puts them together.
- Death is make_corpse's walk, with a successor that may have been put in front of the
  walk by a weapon's fall, followed by the removal of every affect (`DieGood`).

`AppliedOnce` is the hypothesis of `ModifierHolds` alone: without it the code breaks
`ModifierExact` (above, under *Known*). The run's instance satisfies it, and TLC checks that
it does.

What only TLC checks, and why: liveness (`NothingStranded`, `LinesAnswered`,
`PulseCompletes`), because fairness and ENABLED are outside the prover; and
`ReturnsWithAll`, that a file is read back into the very order and nesting it was written from.
What is proved of that round trip is that nothing in the world, the totals, the flags or
the modifier comes out wrong; the equality of the two trees is an induction over the tree that was
not attempted. Every other property of a passing run is a theorem.

## Not modelled

About 196,000 lines are implementation. Most are effects: spells, skills, class abilities,
scripts, displays, tables, the editors of areas. Each is a long sequential function on one
or two characters with random numbers, and shares with the rest only the mechanisms
modelled here; modelling more of them would repeat those. The model therefore stands for a
few thousand lines, those where state is kept in two places by hand, where calls re-enter
and where orders are not the code's to choose.

- Spells, skills, classes, combat rounds: arithmetic on fields nothing else depends on.
  What they do to followers, affects, rooms and death is in Company, Belongings and
  RoomOccupancy.
- Scripts: content. Their queued moves are in RoomOccupancy.
- Give, steal, shops, money, liquids; affects of objects, rooms and areas; end and tick
  functions of affects.
- Area loading, resets and online creation: sequential work on prototypes.
- Notes, votes, bans, help, aliases, SQL repositories, configuration, logging: sequential
  I/O. Of the SQL tables, only a name's rows enter Login.
- Static tables, the web administration, vendored libraries.

## What is left

1. Compositions: EventQueue with RoomOccupancy (moves queued for players who leave), Login
   with Limits (a login's body and the objects it carries).
2. A session service (a player is out, at a login, in the world or link-dead) that Login
   implements.
3. Company: secret following and players' groups.
4. Belongings: shops and giving, with the mobiles' inventories.
5. `ReturnsWithAll` as a theorem: that reading an `Outline` rebuilds the tree it was
   written from, which needs a statement about each object's part of the file in place of
   one about the whole.
