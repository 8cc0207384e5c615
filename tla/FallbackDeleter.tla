--------------------------- MODULE FallbackDeleter ---------------------------
(***************************************************************************)
(* The fallback deleter (videostore/videostore.go): every ten minutes it   *)
(* measures the storage path and, when that is over 1.1 times the          *)
(* configured limit, unlinks the oldest files until what is left by its    *)
(* own account is below.  It knows nothing of the index.                   *)
(***************************************************************************)
EXTENDS StorageDir

VARIABLES
    fbPc,      \* "down", "wait" (for the ticker), "list", "delete" or "remove"
    fbSize,    \* currStorageSize, measured once and counted down
    fbTodo,    \* the sorted files that are left
    fbStat,    \* fileSize, of the one about to be removed
    taken      \* history: the files it has deleted

fbVars == <<fbPc, fbSize, fbTodo, fbStat, taken>>

FallbackTypeOK ==
    /\ fbPc \in {"down", "wait", "list", "delete", "remove"}
    /\ fbSize \in Int
    /\ fbTodo \subseteq File
    /\ fbStat \in Int
    /\ taken \subseteq File

FallbackInit ==
    /\ fbPc = "wait"
    /\ fbSize = 0
    /\ fbTodo = {}
    /\ fbStat = 0
    /\ taken = {}

(***************************************************************************)
(* int64(float64(SizeGB) * 1.1) * Gigabyte: the product is truncated to    *)
(* whole gigabytes, and for a SizeGB below ten that drops the multiplier.  *)
(***************************************************************************)
FallbackLimit == ((SizeGB * 11) \div 10) * Gigabyte

FallbackDown(point) ==
    /\ fbPc' = point
    /\ fbSize' = 0
    /\ fbTodo' = {}
    /\ fbStat' = 0
    /\ UNCHANGED taken

FallbackMeasure ==
    /\ fbPc = "wait"
    /\ GetDirectorySize >= FallbackLimit
    /\ fbPc' = "list"
    /\ fbSize' = GetDirectorySize
    /\ UNCHANGED <<dirVars, fbTodo, fbStat, taken>>

FallbackList ==
    /\ fbPc = "list"
    /\ fbPc' = "delete"
    /\ fbTodo' = disk
    /\ UNCHANGED <<dirVars, fbSize, fbStat, taken>>

(***************************************************************************)
(* The directory cannot be read: the next tick starts over.                *)
(***************************************************************************)
FallbackListFails ==
    /\ fbPc = "list"
    /\ Fault("read")
    /\ FallbackDown("wait")
    /\ UNCHANGED <<now, disk, size, readable, last, writing, up>>

(***************************************************************************)
(* The loop, for the oldest file left: its size first.  A file that is     *)
(* gone is skipped.                                                        *)
(***************************************************************************)
FallbackStat(f) ==
    /\ fbPc = "delete"
    /\ Oldest(f, fbTodo)
    /\ fbSize >= FallbackLimit
    /\ IF f \in disk
       THEN /\ fbPc' = "remove"
            /\ fbStat' = size[f]
            /\ UNCHANGED fbTodo
       ELSE /\ fbTodo' = fbTodo \ {f}
            /\ UNCHANGED <<fbPc, fbStat>>
    /\ UNCHANGED <<dirVars, fbSize, taken>>

(***************************************************************************)
(* Then the file itself, which counts for the size it had.  One that is    *)
(* gone by now, or cannot be removed, is skipped.                          *)
(***************************************************************************)
FallbackRemove(f) ==
    /\ fbPc = "remove"
    /\ Oldest(f, fbTodo)
    /\ fbPc' = "delete"
    /\ fbStat' = 0
    /\ fbTodo' = fbTodo \ {f}
    /\ \/ /\ f \in disk
          /\ Unlink(f)
          /\ fbSize' = fbSize - fbStat
          /\ taken' = taken \cup {f}
          /\ UNCHANGED faults
       \/ /\ f \notin disk
          /\ UNCHANGED <<disk, readable, size, fbSize, taken, faults>>
       \/ /\ f \in disk /\ Fault("remove")
          /\ UNCHANGED <<disk, readable, size, fbSize, taken>>
    /\ UNCHANGED <<now, last, writing, up>>

FallbackDone ==
    /\ fbPc = "delete"
    /\ fbTodo = {} \/ fbSize < FallbackLimit
    /\ FallbackDown("wait")
    /\ UNCHANGED dirVars

FallbackNext ==
    \/ FallbackMeasure \/ FallbackList \/ FallbackListFails \/ FallbackDone
    \/ \E f \in File : FallbackStat(f) \/ FallbackRemove(f)
=============================================================================
