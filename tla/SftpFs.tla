------------------------------- MODULE SftpFs -------------------------------
(***************************************************************************)
(* The methods of the SFTP client (src/ssh/sftp.rs) but the whole-file     *)
(* transfers, which are in module Transfer, and setstat, in Attributes.    *)
(* Most are one SFTP request, a few ask first whether a path exists; copy  *)
(* and exec are shell commands.  No request's error is looked into, so a   *)
(* lost connection reads like a refusal of the server.                     *)
(***************************************************************************)
EXTENDS Calls

\* A request whose every error is reported as the same kind.
Do(cmd, path, failed) == Step(cmd, path, "Ok", failed, failed)

\* self.stat(dir) first: what is not there, or cannot be asked for, is missing.
change_dir(k) ==
    <<[Do("stat", k.a, "NoSuchFileOrDirectory") EXCEPT !.file = "BadFile"]>>

\* readdir, then a readlink for each entry that is a link (make_fsentry), whose
\* failure is only logged.
list_dir(k) ==
    <<Step("readdir", k.a, GoOn, "StatFailed", "StatFailed")>> \o
    [i \in DOMAIN k.links |->
        Step("readlink", Append(k.a, k.links[i]), GoOn, GoOn, GoOn)]

\* The server follows links, so what is found is never one.
stat(k) == <<Do("stat", k.a, "NoSuchFileOrDirectory")>>

\* stat's one error kind is Ok(false).
exists(k) == <<Do("stat", k.a, "Ok")>>

remove_file(k) == <<Do("unlink", k.a, "CouldNotRemoveFile")>>

remove_dir(k) == <<Do("rmdir", k.a, "CouldNotRemoveFile")>>

\* Variant of create_dir with the probe the wrong way round.
CreateDirProbedWrong(k) ==
    <<Step("stat", k.a, GoOn, "DirectoryAlreadyExists", "DirectoryAlreadyExists"),
      Do("mkdir", k.a, "FileCreateDenied")>>

create_dir(k) == <<MustNot("stat", k.a, "DirectoryAlreadyExists"),
                   Do("mkdir", k.a, "FileCreateDenied")>>

\* Only the target is probed; the server refuses a path that is taken.
symlink(k) == <<Must("stat", k.b), Do("symlink", k.a, "FileCreateDenied")>>

copy(k) == <<Must("stat", k.a),
             Step("cp -rf", k.a, "Ok", "FileCreateDenied", "ProtocolError")>>

mov(k) == <<Must("stat", k.a), Do("rename", k.a, "FileCreateDenied")>>

exec(k) == <<Step("exec", k.a, "Ok", "Ok", "ProtocolError")>>

append(k) == <<Do("open append", k.a, "CouldNotOpenFile")>>

create(k) == <<Do("open create", k.a, "FileCreateDenied")>>

open(k) == <<Must("stat", k.a), Do("open read", k.a, "CouldNotOpenFile")>>

Steps(k) ==
    CASE k.op = "change_dir" -> change_dir(k)
      [] k.op = "list_dir" -> list_dir(k)
      [] k.op = "stat" -> stat(k)
      [] k.op = "exists" -> exists(k)
      [] k.op = "remove_file" -> remove_file(k)
      [] k.op = "remove_dir" -> remove_dir(k)
      [] k.op = "create_dir" -> create_dir(k)
      [] k.op = "symlink" -> symlink(k)
      [] k.op = "copy" -> copy(k)
      [] k.op = "mov" -> mov(k)
      [] k.op = "exec" -> exec(k)
      [] k.op = "append" -> append(k)
      [] k.op = "create" -> create(k)
      [] k.op = "open" -> open(k)

\* remove_dir_all is the trait's default method, which is not in this repository.
Supported == {"change_dir", "list_dir", "stat", "exists", "remove_file",
              "remove_dir", "create_dir", "symlink", "copy", "mov", "exec",
              "append", "create", "open"}

=============================================================================
