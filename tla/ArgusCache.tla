---------------------------- MODULE ArgusCache -----------------------------
(***************************************************************************)
(* The data structures of lib/arguscache.c and the list operations of       *)
(* lib/argustree.c, as operators on their values:                           *)
(*                                                                         *)
(*   - the path cache of one watcher: the arrays wd and paths of struct     *)
(*     arguswatch, of length pathc, here one sequence of [wd, path];        *)
(*   - its root paths: the array rootpaths and the count rootpathc;         *)
(*   - wlcache, the process-wide array of the watchers.                     *)
(*                                                                         *)
(* Arrays are sequences, so an index of the code plus one.  0 stands for    *)
(* the -1 ("not found") of the code.                                        *)
(***************************************************************************)
EXTENDS Paths

CONSTANT AllocInc   \* ALLOC_INC, by how much wlcache grows

ASSUME AllocAssumption == AllocInc \in Nat \ {0}

\* A root path that was set to NULL.
NULL == <<>>

\* Who a slot of wlcache points to, as seen by the modelled watcher.
Owner == {"self", "other", "empty"}

----------------------------------------------------------------------------
(* The path cache of a watcher                                              *)

\* find_watch, find_watch_checked
FindWatch(cache, wd) == SelectInSeq(cache, LAMBDA c : c.wd = wd)

\* path_name_to_cache_slot
PathNameToCacheSlot(cache, path) == SelectInSeq(cache, LAMBDA c : c.path = path)

\* wd_to_path_name, only called with a descriptor that find_watch found
WdToPathName(cache, wd) == cache[FindWatch(cache, wd)].path

\* Slip: the paths move down and the descriptors stay.
RemovePathFromCache(cache, index) ==
    [i \in 1 .. Len(cache) - 1 |->
        [wd |-> cache[i].wd, path |-> cache[IF i < index THEN i ELSE i + 1].path]]

\* remove_item_from_cache: the entries above the index move down by one.
RemoveItemFromCache(cache, index) == RemoveAt(cache, index)

\* The prefix test of rewrite_cached_paths and remove_subtree: strncmp, and the
\* next character ends a component.
InSubtree(path, pn) == IsPrefix(pn, path)

\* rewrite_cached_paths.  The rest of the path still begins with its slash when
\* FORMAT_PATH puts another one before it, and it is "" for the directory
\* itself: an empty component appears either way.
RewriteCachedPaths(cache, fullpath, newpf) ==
    [i \in DOMAIN cache |->
        IF InSubtree(cache[i].path, fullpath)
        THEN [cache[i] EXCEPT !.path = FormatPath(newpf, Empty)
                     \o SubSeq(cache[i].path, Len(fullpath) + 1, Len(cache[i].path))]
        ELSE cache[i]]

----------------------------------------------------------------------------
(* The root paths                                                           *)

\* find_root_path, find_root_stat
FindRootPath(rootpaths, rootpathc, path) ==
    SelectInSubSeq(rootpaths, 1, rootpathc, LAMBDA p : p # NULL /\ p = path)

\* remove_root_path: the entry becomes NULL and the count drops by one.
RemoveRootPath(rootpaths, k) == ReplaceAt(rootpaths, k, NULL)

----------------------------------------------------------------------------
(* wlcache                                                                  *)

\* find_cached_slot of this watcher's pid and sid
FindCachedSlot(wl) == SelectInSeq(wl, LAMBDA o : o = "self")

\* mark_cache_slot_empty
MarkCacheSlotEmpty(wl, slot) == ReplaceAt(wl, slot, "empty")

\* The array find_empty_cache_slot leaves behind, and the slot it returns.
Grown(wl) == IF \E i \in DOMAIN wl : wl[i] = "empty" THEN wl
             ELSE wl \o [i \in 1 .. AllocInc |-> "empty"]

\* Slip: the slot before the first free one.
FindSlotBefore(wl) == SelectInSeq(Grown(wl), LAMBDA o : o = "empty") - 1

FindEmptyCacheSlot(wl) == SelectInSeq(Grown(wl), LAMBDA o : o = "empty")

\* add_watch_to_cache
AddWatchToCache(wl) == ReplaceAt(Grown(wl), FindEmptyCacheSlot(wl), "self")
=============================================================================
