------------------------------ MODULE MMCDrive ------------------------------
(***************************************************************************)
(* An MMC recorder as dao/GenericMMC.cc and dao/main.cc use it: the tray,  *)
(* the medium in it and the person at it, the buffer that is burned while  *)
(* the host goes on, and the errors of burning that the host hears of with *)
(* a later command.  Nothing of this is code under src/.                   *)
(***************************************************************************)
EXTENDS Integers, Sequences

CONSTANTS
    Media,       \* media a person may insert: [empty, append, start]
    CacheBlocks, \* size of the drive's buffer in blocks
    Pregap,      \* 150
    MaxSwaps     \* bound: how often a person opens the tray

ASSUME DriveAssumption ==
    /\ Media \subseteq [empty : BOOLEAN, append : BOOLEAN, start : Nat]
    /\ CacheBlocks \in Nat \ {0} /\ Pregap \in Nat \ {0} /\ MaxSwaps \in Nat

VARIABLES
    healthy,   \* no command fails, no reader fails, and nobody interferes
    tray,      \* "in" or "out"
    medium,    \* the medium in the tray
    locked,    \* PREVENT MEDIUM REMOVAL is in effect
    testWrite, \* test-write bit of the write parameters mode page
    next,      \* address the next WRITE must have; AnyAddress before the first
    last,      \* the address behind the blocks of the cue sheet; NoSession without one
    cache,     \* accepted, but not yet burned
    burned,    \* what the session put on its medium
    deferred,  \* burning failed and no command has reported it yet
    swaps

driveVars == <<healthy, tray, medium, locked, testWrite, next, last, cache, burned, deferred, swaps>>

AnyAddress == -1000000
NoSession == -1000000
LeadOut == <<"leadout", 0>>
Erase == <<"erase", 0>>
Blank == [empty |-> TRUE, append |-> TRUE, start |-> 0]
MayFail == ~healthy

DriveInit ==
    /\ healthy \in BOOLEAN
    /\ tray = "in" /\ testWrite \in BOOLEAN
    /\ next = AnyAddress /\ last = NoSession
    /\ cache = <<>> /\ burned = <<>> /\ deferred = FALSE /\ swaps = 0

\* A command finds the drive with a medium, and no old error to report.
Responsive == tray = "in" /\ ~deferred
HasRoom(n) == Len(cache) + n <= CacheBlocks
RightAddress(lba) == next = AnyAddress \/ next = lba

\* PREVENT/ALLOW MEDIUM REMOVAL
Prevent(block) ==
    /\ locked' = block
    /\ UNCHANGED <<healthy, tray, medium, testWrite, next, last, cache, burned, deferred, swaps>>

\* WRITE of blocks that the drive accepts.
Accept(lba, blocks) ==
    /\ cache' = cache \o blocks
    /\ next' = lba + Len(blocks)
    /\ UNCHANGED <<healthy, tray, medium, locked, testWrite, last, burned, deferred, swaps>>

\* SYNCHRONIZE CACHE ends the session, with a lead-out if the cue sheet is
\* complete.  It may return before the buffer is burned; it reports, once, what
\* has gone wrong before.
Synchronize ==
    /\ deferred' = FALSE /\ last' = NoSession
    /\ cache' = IF last # NoSession /\ next = last /\ Responsive THEN Append(cache, LeadOut) ELSE cache
    /\ UNCHANGED <<healthy, tray, medium, locked, testWrite, next, burned, swaps>>

\* START/STOP UNIT with the tray: the driver allows removal before it.
Eject ==
    /\ locked' = FALSE
    /\ tray' = "out" /\ cache' = <<>>
    /\ UNCHANGED <<healthy, medium, testWrite, next, last, burned, deferred, swaps>>
-----------------------------------------------------------------------------
(* The drive itself.                                                       *)

BurnOne ==
    /\ tray = "in" /\ cache # <<>>
    /\ cache' = Tail(cache)
    /\ burned' = IF testWrite THEN burned
                 ELSE IF Head(cache) = Erase THEN <<>> ELSE Append(burned, Head(cache))
    /\ medium' = IF testWrite \/ Head(cache) # Erase THEN medium ELSE Blank
    /\ UNCHANGED <<healthy, tray, locked, testWrite, next, last, deferred, swaps>>

\* The laser loses the track: the rest of the buffer is lost as well.
BurningFails ==
    /\ MayFail /\ tray = "in" /\ cache # <<>>
    /\ cache' = <<>> /\ deferred' = TRUE
    /\ UNCHANGED <<healthy, tray, medium, locked, testWrite, next, last, burned, swaps>>

\* The button at the tray.  A drive that erases does not open.
OpenTray ==
    /\ MayFail /\ tray = "in" /\ ~locked /\ Erase \notin {cache[i] : i \in DOMAIN cache}
    /\ swaps < MaxSwaps
    /\ tray' = "out" /\ cache' = <<>> /\ swaps' = swaps + 1
    /\ UNCHANGED <<healthy, medium, locked, testWrite, next, last, burned, deferred>>

Insert(m) ==
    /\ tray' = "in" /\ medium' = m
    /\ next' = AnyAddress /\ last' = NoSession /\ cache' = <<>> /\ deferred' = FALSE
    /\ UNCHANGED <<healthy, locked, testWrite, burned, swaps>>

CloseTray == tray = "out" /\ \E m \in Media : Insert(m)
=============================================================================
