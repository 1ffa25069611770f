------------------------------ MODULE MCMounts ------------------------------
(* Two devices beside that of the root, two directories and a file to mount  *)
(* them on.                                                                  *)
EXTENDS Mounts, TLC

On(op, c) == [op |-> op, client |-> c]
ChdirTo(c, path) == [path |-> path] @@ On("chdir", c)
MountOn(c, dev, path) == [dev |-> dev, path |-> path] @@ On("mount", c)
UnmountOf(c, dev) == [dev |-> dev] @@ On("unmount", c)

SomeRequests ==
  UNION {{On("spawn", c), On("exit", c), On("shutdown", c)}
           \cup {ChdirTo(c, p) : p \in {<<2>>, <<3>>, <<2, 2>>, <<Up>>}}
           \cup {MountOn(c, d, p) : d \in Devs \ {RootDev}, p \in {<<2>>, <<2, 2>>, <<3>>}}
           \cup {UnmountOf(c, d) : d \in Devs \ {RootDev}} : c \in Clients}
=============================================================================
