-------------------------- MODULE ContainerMounts --------------------------
(***************************************************************************)
(* What a container of a task mounts, and which of its mounts a path lies  *)
(* in: map_volumes and the mounts of ContainerCommandBuilder.  docker and  *)
(* singularity are external.                                               *)
(***************************************************************************)
EXTENDS Naturals, FiniteSetsExt, SequencesExt

\* A letter of a name in a path.  Of those that mean something to a shell, to -v or to
\* curl -F only the blank is one: the double quotes around a mount's path still expand a $
\* and a backquote, and those around an uploaded file's end before it
\* (container.py:199-208, 347).
SpecialLetter ==
  {"/", ":", ",", "$", "`", "\"", "'", "\\", ";", "|", "&", "<", ">", "(", ")", "*", "?", "[", "]", "{", "}",
   "~", "#", "!", "\t", "\n"}

Letter == STRING \ SpecialLetter

\* A path is a sequence of names, and / the empty one.  An absolute path of the client's
\* with an empty name, a . or a .. in it, which reaches docker as it is, is left out.
Path == Seq(Seq(Letter) \ {<<>>, <<".">>, <<".", ".">>})

Dirname(path) == Front(path)

\* Mutant: the volume is named after the directory's own name.
VolumeNameLast(dir) == IF dir = <<>> THEN <<>> ELSE Last(dir)

\* map_volumes: vol-{job_id}-{output_dirname.replace('/', '')}.  The job id is in
\* every name and left out here.
VolumeName(dir) == FlattenSeq(dir)

\* What is mounted where.  A source is an input, the volume of a name, or
\* Pulsar's inputs directory.
Mount(path, source) == [at |-> path, source |-> source]

\* with_bind_mount and with_volume fill dictionaries: a path keeps its place
\* among the flags, which come after those of others, and gets the last source.
Dictionary(entries, others) ==
  LET Same(i) == {j \in DOMAIN entries : entries[j].at = entries[i].at} IN
    { [at |-> entries[i].at, source |-> entries[Max(Same(i))].source,
       place |-> others + Min(Same(i))] : i \in DOMAIN entries }

\* map_volumes: a volume for the directory of every output and for every volume
\* the task asks for.
VolumeDirs(outputs, volumes) == [o \in DOMAIN outputs |-> Dirname(outputs[o].path)] \o volumes

Volumes(outputs, volumes, others) ==
  LET dirs == VolumeDirs(outputs, volumes) IN
    Dictionary([d \in DOMAIN dirs |-> Mount(dirs[d], [volume |-> VolumeName(dirs[d])])], others)

\* Mutant: a directory is created and not mounted.
BindsFilesOnly(inputs) ==
  { mount \in Dictionary([i \in DOMAIN inputs |-> Mount(inputs[i].path, [input |-> i])], 0) :
      inputs[mount.source.input].type = "FILE" }

\* run_command: every input at its path.
Binds(inputs) ==
  Dictionary([i \in DOMAIN inputs |-> Mount(inputs[i].path, [input |-> i])], 0)

\* The directory of the containers of stage-in and stage-out.
Downloads == <<<<"downloads">>>>

InputsDirectory == Dictionary(<<Mount(Downloads, [inputs |-> "all"])>>, 0)

\* get_run_command writes the bind mounts and then the volumes.
ExecutorMounts(job) ==
  Binds(job.inputs) \cup Volumes(job.outputs, job.volumes, Len(job.inputs))

StageOutMounts(job) ==
  (IF job.container = "singularity" THEN InputsDirectory ELSE {})
    \cup Volumes(job.outputs, job.volumes, 1)

\* docker run refuses to mount twice at one path, and to mount at /.
Refused(container, mounts) ==
  /\ container = "docker"
  /\ \/ \E mount \in mounts : mount.at = <<>>
     \/ \E one, other \in mounts : one # other /\ one.at = other.at

\* Which of two mounts hides the other: with docker, that nearer to the root is
\* mounted first, and with singularity that written first.
Hides(container, one, other) ==
  IF container = "docker" THEN Len(one.at) > Len(other.at) ELSE one.place > other.place

\* The mounts at a path and above it.
Around(mounts, path) == {mount \in mounts : IsPrefix(mount.at, path)}

\* The source a path is in, and where in it, if it is not in the image's own files.
Place(container, mounts, path) ==
  LET around == Around(mounts, path) IN
    IF around = {} THEN Mount(path, [image |-> "own"])
    ELSE LET top == CHOOSE mount \in around :
                      \A other \in around \ {mount} : Hides(container, mount, other)
         IN Mount(SubSeq(path, Len(top.at) + 1, Len(path)), top.source)

\* The inputs a container finds at their paths.
Visible(container, mounts, inputs) ==
  {i \in DOMAIN inputs :
     Place(container, mounts, inputs[i].path) = Mount(<<>>, [input |-> i])}

=============================================================================
