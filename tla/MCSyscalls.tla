----------------------------- MODULE MCSyscalls -----------------------------
(* Two threads and two processes; files and directories in the root directory *)
(* and one level below it.                                                    *)
EXTENDS Syscalls, TLC

On(op, p, path) == [op |-> op, pid |-> p, from |-> "rootdir", path |-> path]
InWorkdir(r) == [r EXCEPT !.from = "workdir"]
OpenAs(p, path, flags) == [flags |-> flags] @@ On("open", p, path)
OnFile(op, p, fd) == [op |-> op, pid |-> p, fd |-> fd]

\* Process 1 changes the tree and process 2 uses what is in it.
SomeRequests ==
  {On("spawn", 1, <<"">>), On("chdir", 1, <<"d">>), On("chdir", 1, <<"">>),
   On("mkdir", 1, <<"d">>), On("mkdir", 1, <<"d", "d">>), InWorkdir(On("mkdir", 1, <<"d">>)),
   On("rmdir", 1, <<"d">>), InWorkdir(On("rmdir", 1, <<"..">>)), InWorkdir(On("rmdir", 1, <<".">>)),
   OpenAs(1, <<"a">>, {"O_CREAT"}), OpenAs(1, <<"d">>, {"O_CREAT", "write"}),
   On("unlink", 1, <<"a">>), OnFile("read", 1, 0),
   On("spawn", 2, <<"">>), OpenAs(2, <<"a">>, {}), OpenAs(2, <<"a", "d">>, {}),
   OnFile("close", 2, 0), [op |-> "exit", pid |-> 2]}

\* A process has the directory as its root directory and changes its own.
RootedRequests ==
  {On("spawn", 2, <<"">>), On("mkdir", 2, <<"d", "e">>), On("rmdir", 2, <<"d">>),
   On("spawn", 1, <<"d">>), On("chdir", 1, <<"e">>), [op |-> "exit", pid |-> 1]}

\* Processes make and remove directories, and one of them unlinks its working directory.
DirRequests ==
  {On("spawn", 1, <<"">>), On("spawn", 2, <<"">>), On("mkdir", 1, <<"d", "e">>), On("rmdir", 1, <<"d">>),
   On("chdir", 2, <<"d">>), On("chdir", 2, <<"d", "e">>), On("chdir", 2, <<"">>),
   InWorkdir(OpenAs(2, <<"..", "a">>, {})), InWorkdir(On("unlink", 2, <<".">>))}
=============================================================================
