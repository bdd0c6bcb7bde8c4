--------------------------------- MODULE MFile ---------------------------------
(***************************************************************************)
(* MFile objects and the process's table of file descriptors, which they   *)
(* share with each other, in all threads, and with the rest of the code.   *)
(***************************************************************************)
EXTENDS Integers

CONSTANTS Files,       \* MFile objects
          Descriptors, \* what the table has room for
          Other, Free  \* whoever else has a descriptor, and nobody

ASSUME FilesAssumption == Other \notin Files /\ Free \notin Files /\ Other # Free
ASSUME DescriptorsAssumption == Descriptors \subseteq Nat

VARIABLES built,  \* the objects that exist
          m_fd,   \* MFile::m_fd
          holder, \* who opened the descriptor
          known,  \* history: the objects whose m_fd was ever assigned
          lost,   \* history: descriptors that left their object's m_fd unclosed
          astray  \* history: an m_fd that nobody assigned was closed

fileVars == <<built, m_fd, holder, known, lost, astray>>

FileTypeOK == /\ built \subseteq Files
              /\ m_fd \in [Files -> Descriptors \cup {-1}]
              /\ holder \in [Descriptors -> Files \cup {Other, Free}]
              /\ known \subseteq Files
              /\ lost \subseteq Descriptors
              /\ astray \in BOOLEAN

\* open(2) takes the lowest free descriptor, if any.
Lowest == {d \in Descriptors : /\ holder[d] = Free
                               /\ \A e \in Descriptors : holder[e] = Free => d <= e}

\* The default constructor sets m_fd, the other one leaves what the memory had.
CtorDefault(f) == /\ f \notin built
                  /\ built' = built \cup {f}
                  /\ m_fd' = [m_fd EXCEPT ![f] = -1]
                  /\ known' = known \cup {f}
                  /\ UNCHANGED <<holder, lost, astray>>

CtorNamed(f) == /\ f \notin built
                /\ built' = built \cup {f}
                /\ \E garbage \in Descriptors \cup {-1} :
                     m_fd' = [m_fd EXCEPT ![f] = garbage]
                /\ known' = known \ {f}
                /\ UNCHANGED <<holder, lost, astray>>

\* m_fd becomes d; a descriptor of its own that it had is not closed.
Assign(f, d) == /\ m_fd' = [m_fd EXCEPT ![f] = d]
                /\ lost' = (lost \ {d}) \cup ({m_fd[f]} \cap {e \in Descriptors : holder[e] = f})
                /\ known' = known \cup {f}

\* open() in the same way, whose lseek finds the size.  A failing open(2)
\* changes nothing.
create(f) == /\ f \in built
             /\ \E d \in Lowest : /\ holder' = [holder EXCEPT ![d] = f]
                                  /\ Assign(f, d)
             /\ UNCHANGED <<built, astray>>

\* Nothing is closed when lseek fails, as on a pipe.
openUnseekable(f) == /\ f \in built
                     /\ \E d \in Lowest : /\ holder' = [holder EXCEPT ![d] = f]
                                          /\ lost' = lost \cup {d}
                     /\ UNCHANGED <<built, m_fd, known, astray>>

\* Mutant: m_fd keeps the closed descriptor.
CloseKeeping(f) == /\ holder' = IF m_fd[f] > 0 THEN [holder EXCEPT ![m_fd[f]] = Free]
                                ELSE holder
                   /\ lost' = IF m_fd[f] > 0 THEN lost \ {m_fd[f]} ELSE lost
                   /\ astray' = (astray \/ (f \notin known /\ m_fd[f] > 0))
                   /\ UNCHANGED <<m_fd, known>>

\* Descriptor 0 is not closed.
Close(f) == IF m_fd[f] > 0
            THEN /\ holder' = [holder EXCEPT ![m_fd[f]] = Free]
                 /\ lost' = lost \ {m_fd[f]}
                 /\ astray' = (astray \/ f \notin known)
                 /\ m_fd' = [m_fd EXCEPT ![f] = -1]
                 /\ known' = known \cup {f}
            ELSE UNCHANGED <<m_fd, holder, known, lost, astray>>

close(f) == f \in built /\ Close(f) /\ UNCHANGED built

\* Mutant: the destructor leaves the descriptor open.
DtorNoClose(f) == /\ f \in built
                  /\ built' = built \ {f}
                  /\ UNCHANGED <<m_fd, holder, known, lost, astray>>

Dtor(f) == f \in built /\ built' = built \ {f} /\ Close(f)

is_open(f) == m_fd[f] >= 0

OtherOpens == /\ \E d \in Lowest : holder' = [holder EXCEPT ![d] = Other]
              /\ UNCHANGED <<built, m_fd, known, lost, astray>>

OtherCloses == /\ \E d \in Descriptors :
                    holder[d] = Other /\ holder' = [holder EXCEPT ![d] = Free]
               /\ UNCHANGED <<built, m_fd, known, lost, astray>>

FileInit == /\ built = {} /\ known = {} /\ lost = {} /\ astray = FALSE
            /\ m_fd = [f \in Files |-> -1]
            /\ holder \in [Descriptors -> {Other, Free}]

Call(f) == \/ CtorDefault(f) \/ CtorNamed(f) \/ create(f) \/ openUnseekable(f)
           \/ close(f) \/ Dtor(f)
Elsewhere == OtherOpens \/ OtherCloses

FileNext == (\E f \in Files : Call(f)) \/ Elsewhere

FileSpec == FileInit /\ [][FileNext]_fileVars

(***************************************************************************)
(* Properties.                                                             *)
(***************************************************************************)

\* However objects and other code open and close and reuse descriptors, an
\* open MFile whose m_fd the code has set (known: the constructor with a name
\* leaves it as it was) reads and writes a file it opened itself, until an
\* object is closed whose m_fd the code had not set.
OpenIsOwned ==
  ~astray => \A f \in built \cap known : is_open(f) => holder[m_fd[f]] = f

\* A descriptor that an object opened is either its m_fd, and so will be
\* closed, or one of three: it was open when the object was opened again,
\* lseek failed on it, or it is descriptor 0, which close() takes for none.
LeaksExplained ==
  ~astray =>
    \A d \in Descriptors, f \in Files :
      holder[d] = f => \/ f \in built /\ m_fd[f] = d
                       \/ d = 0
                       \/ d \in lost
===============================================================================
