------------------------------ MODULE FsSeeds ------------------------------
(***************************************************************************)
(* gen_virtio_fs_corpus.py: the seeds of the virtio-fs harness.            *)
(*                                                                         *)
(* A FUSE request is its opcode, its unique and the room for the answer;   *)
(* arg is the length of its arguments as far as the seed chooses it (names *)
(* with their zero, written data, payloads).                               *)
(***************************************************************************)
EXTENDS SeedOps

\* High-priority, notification and request queue.
prologue == Driver({"VERSION_1"}, 3)

fuseSized(unique, in_buf, block) ==
  [list |-> "ops", op |-> "FuseReq", vq |-> 2, unique |-> unique, in_buf |-> in_buf,
   block |-> block]
fuse(unique, block) == fuseSized(unique, 1024, block)

hp(opcode, unique, payload) ==
  [list |-> "ops", op |-> "FuseHpReq", opcode |-> opcode, unique |-> unique,
   payload |-> payload]

block(opcode, arg) == [opcode |-> opcode, arg |-> arg]
op_init              == block("INIT", 0)
op_lookup(name)      == block("LOOKUP", name + 1)
op_getattr           == block("GETATTR", 0)
op_setattr           == block("SETATTR", 0)
op_open              == block("OPEN", 0)
op_read              == block("READ", 0)
op_write(data)       == block("WRITE", data)
op_release           == block("RELEASE", 0)
op_mkdir(name)       == block("MKDIR", name + 1)
op_unlink(name)      == block("UNLINK", name + 1)
op_rmdir(name)       == block("RMDIR", name + 1)
op_getxattr(name)    == block("GETXATTR", name + 1)
op_setxattr(name, v) == block("SETXATTR", name + 1 + v)
op_listxattr         == block("LISTXATTR", 0)
op_removexattr(name) == block("REMOVEXATTR", name + 1)
op_ioctl             == block("IOCTL", 0)
op_raw(payload)      == block("raw", payload)

----------------------------------------------------------------------------

seed_init == Seed("seed_01_init", prologue)

seed_fuse_init == Seed("seed_02_fuse_init", prologue \o Awaited(<<fuse(1, op_init)>>, 2))

seed_lookup ==
  Seed("seed_03_lookup", prologue
    \o Awaited(<<fuse(1, op_init), fuse(2, op_lookup(5)), fuse(3, op_lookup(5))>>, 2))

seed_getattr_setattr ==
  Seed("seed_04_attr", prologue
    \o Awaited(<<fuse(1, op_init), fuse(2, op_getattr), fuse(3, op_setattr)>>, 2))

seed_open_read_release ==
  Seed("seed_05_open_read", prologue
    \o Awaited(<<fuse(1, op_init), fuse(2, op_open), fuseSized(3, 4096, op_read),
                 fuse(4, op_release)>>, 2))

seed_write ==
  Seed("seed_06_write",
       prologue \o Awaited(<<fuse(1, op_init), fuse(2, op_write(214))>>, 2))

seed_mkdir_rmdir ==
  Seed("seed_07_dir_ops", prologue
    \o Awaited(<<fuse(1, op_init), fuse(2, op_mkdir(3)), fuse(3, op_unlink(6)),
                 fuse(4, op_rmdir(3))>>, 2))

seed_xattr ==
  Seed("seed_08_xattr", prologue
    \o Awaited(<<fuse(1, op_init), fuse(2, op_getxattr(9)), fuse(3, op_setxattr(9, 5)),
                 fuse(4, op_listxattr), fuse(5, op_removexattr(9))>>, 2))

seed_ioctl ==
  Seed("seed_09_ioctl",
       prologue \o Awaited(<<fuse(1, op_init), fuseSized(2, 128, op_ioctl)>>, 2))

seed_forget_hp ==
  Seed("seed_10_forget_hp", prologue
    \o Awaited(<<fuse(1, op_init)>>, 2) \o Awaited(<<hp("FORGET", 2, 8)>>, 0))

seed_raw ==
  Seed("seed_11_raw_fallocate",
       prologue \o Awaited(<<fuse(1, op_init), fuse(2, op_raw(32))>>, 2))

seed_dma_reflection == Seed("seed_dma_reflection", prologue \o Reflection(1))

seed_dma_all_regions ==
  Seed("seed_dma_all_exotic_regions", prologue \o AllRegions(1))

seed_dma_reflection_concurrent ==
  Seed("seed_dma_reflection_concurrent",
       prologue \o ReflectionConcurrent(1) \o <<thread_b_iter(4)>>)

seed_dma_reset_gadget ==
  Seed("seed_dma_reset_gadget", prologue \o ResetGadget(1))

seed_dma_recursive_notify ==
  Seed("seed_dma_recursive_notify", prologue \o RecursiveNotify(1))

SEED_BUILDERS ==
  <<seed_init, seed_fuse_init, seed_lookup, seed_getattr_setattr,
    seed_open_read_release, seed_write, seed_mkdir_rmdir, seed_xattr,
    seed_ioctl, seed_forget_hp, seed_raw, seed_dma_reflection,
    seed_dma_all_regions, seed_dma_reflection_concurrent,
    seed_dma_reset_gadget, seed_dma_recursive_notify>>

variation(lines) == Variations(lines, 6)

============================================================================
