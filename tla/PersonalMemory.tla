---------------------------- MODULE PersonalMemory ----------------------------
(***************************************************************************)
(* The personal memory of one user: memory_save_node of the composer       *)
(* (composer_graph.py) over GCSMemoryStore (gcs_memory_store.py).          *)
(*                                                                         *)
(* Three kinds of objects in a bucket: the debounce claim, one file per    *)
(* workflow, and the index of the files.  Each object has a generation,    *)
(* and an upload names the one it expects (0: no object).  The calls to    *)
(* the bucket block the event loop of their container, so a container is   *)
(* in at most one such node; containers interleave, and each keeps a cache *)
(* of what it read and wrote until it restarts (the composer never calls   *)
(* cleanup).  Their clocks agree.                                          *)
(*                                                                         *)
(* The index is a text with one line per file, and so is its copy in a     *)
(* cache.  A line ends in the first message of the turn, which is empty    *)
(* when the user only confirmed an offer: such a line does not match the   *)
(* pattern of the parser, and every load passes over it.  A message with a *)
(* line break that imitates a line of the index is outside of the model.   *)
(***************************************************************************)
EXTENDS Naturals

CONSTANTS Boxes,    \* containers of the composer
          Files,    \* 1 .. n, names of the memory files, one per saved workflow
          Window,   \* the debounce window
          MaxTime,  \* bound of the clock
          NoCache

ASSUME MemoryAssumption ==
  /\ Files \subseteq Nat /\ Window \in Nat /\ MaxTime \in Nat
  /\ \A names \in SUBSET Files : NoCache # names

VARIABLES clock,
          claim,    \* .debounce.json: its generation and claimed_at
          index,    \* MEMORY.md: its generation and the files its lines name
          files,    \* the memory files in the bucket
          described,  \* the files whose line can be read back
          box       \* Boxes -> the node under way, the cached index, and (history)
                    \* the files this incarnation has put into the index

memoryVars == <<clock, claim, index, files, described, box>>

NodeOver(b) == [box[b] EXCEPT !.pc = "idle", !.now = 0, !.gen = 0, !.file = 0, !.refs = {}]

MemoryInit ==
  /\ clock = 0 /\ files = {} /\ described = {}
  /\ claim = [gen |-> 0, at |-> 0] /\ index = [gen |-> 0, names |-> {}]
  /\ box = [b \in Boxes |-> [pc |-> "idle", now |-> 0, gen |-> 0, file |-> 0,
                             refs |-> {}, cache |-> NoCache, listed |-> {}]]

Move(b, x) == box' = [box EXCEPT ![b] = x]
At(b, pc) == box[b].pc = pc
Waits(b) == Move(b, NodeOver(b))     \* the node ends here, whatever went wrong

ObjectsUnchanged == UNCHANGED <<clock, claim, index, files, described>>

FreshFile(f) ==
  /\ f \notin files /\ \A b \in Boxes : box[b].file # f
  /\ \A g \in Files : g < f => g \in files \/ \E b \in Boxes : box[b].file = g

-----------------------------------------------------------------------------
(* The turn has a message, or a second round confirms without one.         *)
EnterSaveMemory(b, f) ==
  /\ At(b, "idle") /\ FreshFile(f)
  /\ described' \in {described \cup {f}, described \ {f}}
  /\ Move(b, [box[b] EXCEPT !.pc = "reload", !.now = clock, !.file = f])
  /\ UNCHANGED <<clock, claim, index, files>>

(* claim_debounce_window: reload, read, upload.  Whatever fails before the *)
(* upload looks like a user without a claim.                               *)
ReloadClaim(b) ==
  /\ At(b, "reload")
  /\ \/ claim.gen > 0 /\ Move(b, [box[b] EXCEPT !.pc = "read", !.gen = claim.gen])
     \/ Move(b, [box[b] EXCEPT !.pc = "claim", !.gen = 0])
  /\ ObjectsUnchanged

ReadClaim(b) ==
  /\ At(b, "read")
  /\ \/ IF claim.at + Window > box[b].now
        THEN Waits(b) ELSE Move(b, [box[b] EXCEPT !.pc = "claim"])
     \/ Move(b, [box[b] EXCEPT !.pc = "claim", !.gen = 0])
  /\ ObjectsUnchanged

(* Fault: the claim is uploaded without the generation it was read with.   *)
ClaimBlindly(b) ==
  /\ At(b, "claim")
  /\ claim' = [gen |-> claim.gen + 1, at |-> box[b].now]
  /\ Move(b, [box[b] EXCEPT !.pc = "file", !.gen = 0])
  /\ UNCHANGED <<clock, index, files, described>>

Claim(b) ==
  /\ At(b, "claim")
  /\ \/ /\ claim.gen = box[b].gen
        /\ claim' = [gen |-> claim.gen + 1, at |-> box[b].now]
        /\ Move(b, [box[b] EXCEPT !.pc = "file", !.gen = 0]) \/ Waits(b)
     \/ Waits(b) /\ UNCHANGED claim
  /\ UNCHANGED <<clock, index, files, described>>

-----------------------------------------------------------------------------
(* Fault: a file that could not be written is put into the index anyway.   *)
SaveFileAnyhow(b) ==
  /\ At(b, "file")
  /\ files' \in {files, files \cup {box[b].file}}
  /\ Move(b, [box[b] EXCEPT !.pc = "load"])
  /\ UNCHANGED <<clock, claim, index, described>>

(* The file has a name of its own.  An upload that raises ends the node,   *)
(* even one that took effect.                                              *)
SaveFile(b) ==
  /\ At(b, "file")
  /\ \/ /\ files' = files \cup {box[b].file}
        /\ Move(b, [box[b] EXCEPT !.pc = "load"]) \/ Waits(b)
     \/ Waits(b) /\ UNCHANGED files
  /\ UNCHANGED <<clock, claim, index, described>>

(* What is left of a text of the index after _parse_index.                 *)
Parsed(names) == names \cap described

(* load_index: from the cache, or from the bucket into the cache; a failed *)
(* download is an empty index, and is not cached.  Both hold the text.     *)
LoadIndex(b) ==
  /\ At(b, "load")
  /\ \/ /\ box[b].cache # NoCache
        /\ Move(b, [box[b] EXCEPT !.pc = "generation", !.refs = Parsed(box[b].cache)])
     \/ /\ box[b].cache = NoCache /\ index.gen > 0
        /\ Move(b, [box[b] EXCEPT !.pc = "generation", !.refs = Parsed(index.names),
                                  !.cache = index.names])
     \/ box[b].cache = NoCache /\ Move(b, [box[b] EXCEPT !.pc = "generation"])
  /\ ObjectsUnchanged

(* save_index asks for the generation only now.                            *)
ReloadIndex(b) ==
  /\ At(b, "generation")
  /\ \E g \in {0, index.gen} : Move(b, [box[b] EXCEPT !.pc = "index", !.gen = g])
  /\ ObjectsUnchanged

(* Fault: the cache is not told what was uploaded.                         *)
UploadIndexUncached(b) ==
  LET names == box[b].refs \cup {box[b].file} IN
  /\ At(b, "index")
  /\ \/ /\ index.gen = box[b].gen
        /\ index' = [gen |-> index.gen + 1, names |-> names]
        /\ Move(b, [NodeOver(b) EXCEPT !.listed = @ \cup {box[b].file}])
     \/ Waits(b) /\ UNCHANGED index
  /\ UNCHANGED <<clock, claim, files, described>>

UploadIndex(b) ==
  LET names == box[b].refs \cup {box[b].file} IN
  /\ At(b, "index")
  /\ \/ /\ index.gen = box[b].gen
        /\ index' = [gen |-> index.gen + 1, names |-> names]
        /\ \/ Move(b, [NodeOver(b) EXCEPT !.cache = names, !.listed = @ \cup {box[b].file}])
           \/ Waits(b)
     \/ Waits(b) /\ UNCHANGED index
  /\ UNCHANGED <<clock, claim, files, described>>

(* The container is replaced by a new one.                                 *)
Restart(b) ==
  /\ Move(b, [NodeOver(b) EXCEPT !.cache = NoCache, !.listed = {}])
  /\ ObjectsUnchanged

MemoryTick ==
  /\ clock < MaxTime /\ clock' = clock + 1
  /\ UNCHANGED <<claim, index, files, described, box>>

MemoryNext ==
  \/ MemoryTick
  \/ \E b \in Boxes :
       \/ \E f \in Files : EnterSaveMemory(b, f)
       \/ ReloadClaim(b) \/ ReadClaim(b) \/ Claim(b) \/ SaveFile(b)
       \/ LoadIndex(b) \/ ReloadIndex(b) \/ UploadIndex(b) \/ Restart(b)

MemorySpec == MemoryInit /\ [][MemoryNext]_memoryVars

-----------------------------------------------------------------------------
MemoryTypeOK ==
  /\ clock \in 0 .. MaxTime /\ files \subseteq Files /\ described \subseteq Files
  /\ claim \in [gen : Nat, at : 0 .. MaxTime]
  /\ index \in [gen : Nat, names : SUBSET Files]
  /\ box \in [Boxes ->
       [pc : {"idle", "reload", "read", "claim", "file", "load", "generation", "index"},
        now : 0 .. MaxTime, gen : Nat, file : Files \cup {0}, refs : SUBSET Files,
        cache : (SUBSET Files) \cup {NoCache}, listed : SUBSET Files]]

(* Whatever the caches hold and whichever upload is lost, the index never  *)
(* names a file that is not in the bucket.                                 *)
IndexNamesStoredFiles == index.names \subseteq files

(* Containers that race for the debounce window, with reads that fail and  *)
(* answers that are lost, never claim it twice.                            *)
OneClaimPerWindow ==
  [][claim' # claim /\ claim.gen > 0 => claim'.at >= claim.at + Window]_memoryVars

(* A container may lose what others listed (its cache is stale) and every  *)
(* entry without a description, but a new entry never pushes out one with  *)
(* a description that the same container put there before.                 *)
OwnEntriesKept ==
  [][\A b \in Boxes : ~(box'[b].listed \subseteq box[b].listed)
       => Parsed(box'[b].listed) \subseteq index'.names]_memoryVars
=============================================================================
