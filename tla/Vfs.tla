--------------------------------- MODULE Vfs ---------------------------------
(***************************************************************************)
(* The registries the kernel fills while it boots: the file system types   *)
(* of kernel/fs/vfs/fs_type.c with the root file system of root.c, super.c *)
(* and testfs/super.c, and the terminals of kernel/drivers/tty/tty.c.      *)
(*                                                                         *)
(* The operations are the heap of list nodes they leave; the kernel shell  *)
(* and arch_init(), which call them, are in module Boot.                   *)
(***************************************************************************)
EXTENDS Lists

VARIABLES
  links,        \* the next and prev pointers of the nodes
  registered,   \* the types registered and not unregistered, the last one first
  root_sb       \* fs_type of the root super block, NULL before it is mounted

vfsVars == <<links, registered, root_sb>>

\* The list heads, testfs_type, the default terminal, and the fs_type on the
\* stack of shell_process_command()
Node == {"fs_list_head", "testfs_type", "fs_type", "tty_list_head", "tty"}

Name(t) == IF t = "testfs_type" THEN "testfs" ELSE "test123"

VfsInit ==
  /\ links = clist_init([next |-> [n \in Node |-> NULL], prev |-> [n \in Node |-> NULL]],
                        "fs_list_head")
  /\ registered = <<>>
  /\ root_sb = NULL

-----------------------------------------------------------------------------
(* File system types *)

\* The walk of clist_for_each from the list head
Entries(h) ==
  LET From[k \in Nat, n \in Node] ==
        IF n = "fs_list_head" \/ k = 0 THEN <<>> ELSE <<n>> \o From[k - 1, h.next[n]]
  IN  From[Cardinality(Node), h.next["fs_list_head"]]

file_system_type_register(h, t) == clist_add(h, "fs_list_head", t)

\* Mutant: the walk ends with the entry before the last one
UnregisterStopsEarly(h, t) ==
  LET Delete(g, n) ==
        IF Name(n) = Name(t) /\ g.next[n] = "fs_list_head" THEN clist_delete_node(g, n) ELSE g
  IN  FoldLeft(Delete, h, Entries(h))

\* Every entry of that name goes: a deleted node keeps its next pointer, by
\* which the walk goes on
file_system_type_unregister(h, t) ==
  LET After[k \in 0 .. Cardinality(Node)] ==
        IF k = 0 THEN [heap |-> h, curr |-> h.next["fs_list_head"]]
        ELSE LET a == After[k - 1]
                 g == IF Name(a.curr) = Name(t) THEN clist_delete_node(a.heap, a.curr)
                                                ELSE a.heap
             IN  IF a.curr = "fs_list_head" THEN a
                 ELSE [heap |-> g, curr |-> g.next[a.curr]]
  IN  After[Cardinality(Node)].heap

\* The first entry of that name
file_system_type_get(h, name) ==
  LET found == SelectSeq(Entries(h), LAMBDA t : Name(t) = name)
  IN  IF found = <<>> THEN NULL ELSE found[1]

\* testfs_super_alloc(), super_block_alloc(): NULL when kmalloc() has no memory,
\* otherwise a cleared block of that type
super_block_alloc(t, memory) == IF memory THEN t ELSE NULL

\* mount_root_testing(): testfs_init() registers testfs, then it is looked up
\* and asked for the root's super block; no type or no block is a panic
Mounted(h) == file_system_type_register(h, "testfs_type")

mount_root_testing(memory, panic) ==
  LET fs == file_system_type_get(Mounted(links), "testfs")
      sb == super_block_alloc(fs, memory)
  IN
  /\ links' = Mounted(links)
  /\ registered' = <<"testfs_type">> \o registered
  /\ panic = (fs = NULL \/ sb = NULL)
  /\ root_sb' = IF panic THEN root_sb ELSE sb

-----------------------------------------------------------------------------
(* Terminals *)

\* tty_create(): SUCCESS() of a pointer always holds, so memory that kmalloc()
\* could not give is written to all the same
tty_create(h, memory) == IF memory THEN llist_add_after(h, "tty_list_head", "tty") ELSE h

tty_init(memory) ==
  /\ links' = tty_create(llist_init(links, "tty_list_head"), memory)
  /\ UNCHANGED <<registered, root_sb>>

-----------------------------------------------------------------------------
(* The fstype command of the kernel shell, up to its register and unregister *)

\* fs_type is a new object with no links
fstype_register ==
  /\ links' = file_system_type_register(
                [links EXCEPT !.next["fs_type"] = NULL, !.prev["fs_type"] = NULL], "fs_type")
  /\ registered' = <<"fs_type">> \o registered
  /\ UNCHANGED root_sb

fstype_unregister ==
  /\ links' = file_system_type_unregister(links, "fs_type")
  /\ registered' = SelectSeq(registered, LAMBDA t : Name(t) # Name("fs_type"))
  /\ UNCHANGED root_sb

=============================================================================
