------------------------------ MODULE HostFiles ------------------------------
(***************************************************************************)
(* Two settings of the host that are read from the first file of a list    *)
(* that has them: the distribution (linuxUtils.GetDistroPath, from the     *)
(* os-release files) and containerd's data root                            *)
(* (containerdUtils.GetDataRoot, from its configuration files). The two    *)
(* differ in what makes them go on to the next file.                       *)
(***************************************************************************)
EXTENDS Integers, Sequences

\* A file has a state, "there" when it can be read, and what is in it.
Ok(v) == [val |-> v, err |-> FALSE]
Failed == [val |-> "", err |-> TRUE]

\* parseLineDistroId: comments, empty lines and other keys give nothing. Double
\* quotes around a value go; single ones stay, unless the value also has a
\* double quote.
ParseLineDistroId(line) ==
    IF line.key # "ID" THEN ""
    ELSE IF line.quote = "single" THEN "quoted" ELSE line.val

\* The first line with an ID, as the loop over the lines finds it.
IdIn(file) ==
    LET scan[i \in 1..Len(file.lines) + 1] ==
            IF i > Len(file.lines) THEN ""
            ELSE LET id == ParseLineDistroId(file.lines[i])
                 IN  IF id # "" THEN id ELSE scan[i + 1]
    IN  scan[1]

\* A plausible bug: the first file that can be read decides.
GetDistroOfFirst(files) ==
    LET next[i \in 1..Len(files) + 1] ==
            CASE i > Len(files) -> Failed
              [] i <= Len(files) /\ files[i].state = "there" -> Ok(IdIn(files[i]))
              [] OTHER -> next[i + 1]
    IN  next[1]

\* GetDistroPath: a file without an ID is passed over like one that cannot be
\* read, and the error is that of the last file.
GetDistroPath(files) ==
    LET there(i) == files[i].state = "there"
        next[i \in 1..Len(files) + 1] ==
            CASE i > Len(files) -> IF there(Len(files)) THEN Ok("") ELSE Failed
              [] i <= Len(files) /\ there(i) /\ IdIn(files[i]) # "" -> Ok(IdIn(files[i]))
              [] OTHER -> next[i + 1]
    IN  next[1]

\* GetLinuxHeaderPath: the directory, without the kernel release in its name.
HeaderDir(distro) ==
    CASE distro \in {"redhat", "centos", "rocky", "almalinux", "fedora", "amzn"} ->
             "/usr/src/kernels"
      [] distro \in {"arch", "flatcar"} -> "/lib/modules"
      [] OTHER -> "/usr/src"

\* parseDataRoot of a file that exists, which may set no root.
DefaultDataRoot == "default"
ParseDataRoot(file) ==
    IF file.state # "there" THEN Failed
    ELSE Ok(IF file.root = "" THEN DefaultDataRoot ELSE file.root)

\* GetDataRoot: only a file that does not exist is passed over.
GetDataRoot(files) ==
    LET next[i \in 1..Len(files) + 1] ==
            CASE i > Len(files) -> Ok(DefaultDataRoot)
              [] i <= Len(files) /\ files[i].state # "absent" -> ParseDataRoot(files[i])
              [] OTHER -> next[i + 1]
    IN  next[1]
=============================================================================
