------------------------------- MODULE ScpFs -------------------------------
(***************************************************************************)
(* The methods of the SCP client (src/ssh/scp.rs).  Each is a short        *)
(* sequence of shell commands sent one after the other over the session,   *)
(* and nothing but those commands touches the server.  k is the call: its  *)
(* arguments a and b made absolute, target as given.  setstat is in module *)
(* Attributes.                                                             *)
(***************************************************************************)
EXTENDS Calls

\* Variant of Do: a transport error is reported as the refusal it might be.
DoOrRefused(cmd, path, refused) == Step(cmd, path, "Ok", refused, refused)

\* perform_shell_cmd_with_rc: the status decides between Ok and one error, and
\* a transport error is a ProtocolError.
Do(cmd, path, refused) == Step(cmd, path, "Ok", refused, "ProtocolError")

change_dir(k) == <<Do("cd", k.a, "NoSuchFileOrDirectory")>>

\* The status of ls is not asked for: no parsable line is an empty directory.
list_dir(k) == <<Must("test -e", k.a), Do("ls -la", k.a, "Ok")>>

\* is_directory(path)?
IsDirectory(path) == Step("test -d", path, GoOn, GoOn, "StatFailed")

\* No parsable line is a missing file; "/" has no parent.
stat(k) ==
    <<IsDirectory(k.a),
      IF k.a = << >> THEN Step("ls -l", k.a, "StatFailed", "StatFailed", "ProtocolError")
                     ELSE Do("ls -l", k.a, "NoSuchFileOrDirectory")>>

\* Variant of exists: an error counts as absence.
ExistsOrFalse(k) == <<Step("test -e", k.a, "Ok", "Ok", "Ok")>>

exists(k) == <<Step("test -e", k.a, "Ok", "Ok", "StatFailed")>>

\* Variant of remove_file with the recursive command.
RemoveFileRecursive(k) ==
    <<Must("test -e", k.a), Do("rm -rf", k.a, "CouldNotRemoveFile")>>

remove_file(k) == <<Must("test -e", k.a), Do("rm -f", k.a, "CouldNotRemoveFile")>>

\* Variants of remove_dir: the status is ignored; the recursive command.
RemoveDirUnchecked(k) == <<Must("test -e", k.a), Do("rmdir", k.a, "Ok")>>

RemoveDirRecursive(k) == <<Must("test -e", k.a), Do("rm -rf", k.a, "DirectoryNotEmpty")>>

remove_dir(k) == <<Must("test -e", k.a), Do("rmdir", k.a, "DirectoryNotEmpty")>>

remove_dir_all(k) == <<Must("test -e", k.a), Do("rm -rf", k.a, "CouldNotRemoveFile")>>

create_dir(k) == <<MustNot("test -e", k.a, "DirectoryAlreadyExists"),
                   Do("mkdir", k.a, "FileCreateDenied")>>

\* The target is probed relative to the working directory and linked as given.
symlink(k) == <<Must("test -e", k.b), MustNot("test -e", k.a, "FileCreateDenied"),
                Do("ln -s", k.a, "FileCreateDenied")>>

copy(k) == <<Must("test -e", k.a), Do("cp -rf", k.a, "FileCreateDenied")>>

\* Variants of mov: a copy; a copy and a removal.
MovCopies(k) == <<Must("test -e", k.a), Do("cp -rf", k.a, "FileCreateDenied")>>

MovCopiesAndRemoves(k) ==
    <<Must("test -e", k.a),
      Step("cp -rf", k.a, GoOn, "FileCreateDenied", "ProtocolError"),
      Do("rm -rf", k.a, "FileCreateDenied")>>

mov(k) == <<Must("test -e", k.a), Do("mv -f", k.a, "FileCreateDenied")>>

\* The status of the command is part of what exec returns.
exec(k) == <<Do("exec", k.a, "Ok")>>

\* scp_send does not tell a refusal from a transport error.
create(k) == <<Step("scp -t", k.a, "Ok", "FileCreateDenied", "FileCreateDenied")>>

open(k) == <<Must("test -e", k.a),
             Step("scp -f", k.a, "Ok", "CouldNotOpenFile", "CouldNotOpenFile")>>

Steps(k) ==
    CASE k.op = "change_dir" -> change_dir(k)
      [] k.op = "list_dir" -> list_dir(k)
      [] k.op = "stat" -> stat(k)
      [] k.op = "exists" -> exists(k)
      [] k.op = "remove_file" -> remove_file(k)
      [] k.op = "remove_dir" -> remove_dir(k)
      [] k.op = "remove_dir_all" -> remove_dir_all(k)
      [] k.op = "create_dir" -> create_dir(k)
      [] k.op = "symlink" -> symlink(k)
      [] k.op = "copy" -> copy(k)
      [] k.op = "mov" -> mov(k)
      [] k.op = "exec" -> exec(k)
      [] k.op = "create" -> create(k)
      [] k.op = "open" -> open(k)

\* append is UnsupportedFeature before anything is looked at.
Supported == {"change_dir", "list_dir", "stat", "exists", "remove_file",
              "remove_dir", "remove_dir_all", "create_dir", "symlink", "copy",
              "mov", "exec", "create", "open"}

=============================================================================
