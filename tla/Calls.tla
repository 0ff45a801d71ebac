------------------------------- MODULE Calls -------------------------------
(***************************************************************************)
(* A method of the RemoteFs trait as the sequence of requests it sends.    *)
(* A request is a shell command or an SFTP packet; its step says what the  *)
(* method returns when the server did it, when the server refused it and   *)
(* when the transport failed, or that the method goes on to the next step. *)
(* A method that goes on after its last step returns Ok.                   *)
(***************************************************************************)
EXTENDS Sequences

GoOn == "go on"

\* on is what the request is about: a path, or the attributes it sets.
\* file is what is returned when the server answers for something that is not
\* a directory: the same as ok, but for the SFTP change_dir.
Step(cmd, on, ok, refused, broken) ==
    [cmd |-> cmd, on |-> on, ok |-> ok, file |-> ok,
     refused |-> refused, broken |-> broken]

\* self.exists(path).ok().unwrap_or(false), or self.exists(path)? where every
\* error is Ok(false): an error is taken for "does not exist".
Must(look, on) ==
    Step(look, on, GoOn, "NoSuchFileOrDirectory", "NoSuchFileOrDirectory")

MustNot(look, on, kind) == Step(look, on, kind, GoOn, GoOn)
=============================================================================
