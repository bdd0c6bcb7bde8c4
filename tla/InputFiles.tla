------------------------------ MODULE InputFiles ------------------------------
(***************************************************************************)
(* intput_collect: the files to decode, found by FileList::search in the   *)
(* directory of -d with ff_filter, and added from -f as it is.             *)
(*                                                                         *)
(* search looks for an entry by the text of -d with the entry's name right *)
(* behind it: without a slash at the end of -d these are the paths of      *)
(* files beside the directory.                                             *)
(***************************************************************************)
EXTENDS Sequences, FiniteSets

CONSTANTS Names,  \* names of directory entries, but for "." and ".."
          File    \* the path given to -f

Entries == Names \cup {".", ".."}
Forms == {"slash", "bare"}  \* whether the text of -d ends in a slash
Paths == Forms \X Entries   \* the text of -d, the name

VARIABLES m_sDirPath,  \* -d: "" or one of Forms
          m_sFilePath, \* whether the text of -f has any characters
          content,     \* entries of the directory
          regular,     \* the paths under which stat finds a regular file
          cpc,         \* where intput_collect is
          unread,      \* entries readdir has still to return
          dirFailed,   \* opendir or readdir failed (for the properties)
          m_lstFiles   \* FileList::m_lstFiles

dirVars == <<m_sDirPath, m_sFilePath, content, regular>>

TypeOK == /\ m_sDirPath \in {""} \cup Forms
          /\ m_sFilePath \in BOOLEAN
          /\ content \subseteq Names
          /\ regular \subseteq Paths
          /\ cpc \in {"search", "read", "add", "done"}
          /\ unread \subseteq Entries
          /\ dirFailed \in BOOLEAN
          /\ m_lstFiles \in Seq(Paths \cup {File})

\* opendir fails for an option that names no directory; nobody looks at what
\* search returns.
OpenDir == /\ cpc = "search" /\ m_sDirPath # ""
           /\ \/ /\ cpc' = "read" /\ unread' = content \cup {".", ".."}
                 /\ UNCHANGED dirFailed
              \/ cpc' = "add" /\ dirFailed' = TRUE /\ UNCHANGED unread
           /\ UNCHANGED <<dirVars, m_lstFiles>>

NoDir == /\ cpc = "search" /\ m_sDirPath = ""
         /\ cpc' = "add"
         /\ UNCHANGED <<dirVars, unread, dirFailed, m_lstFiles>>

ff_filter(path) == path \notin regular

\* Mutant: nothing is said about "." and "..".
SkippedNot(e) == ff_filter(<<m_sDirPath, e>>)

Skipped(e) == e \in {".", ".."} \/ ff_filter(<<m_sDirPath, e>>)

\* readdir returns the entries in any order.
ReadDir(e) == /\ cpc = "read" /\ e \in unread
              /\ unread' = unread \ {e}
              /\ m_lstFiles' = IF Skipped(e) THEN m_lstFiles
                               ELSE Append(m_lstFiles, <<m_sDirPath, e>>)
              /\ UNCHANGED <<dirVars, cpc, dirFailed>>

\* readdir answers a failure as it answers the end, and search does not look
\* which it is.
CloseDir == /\ cpc = "read"
            /\ \/ unread = {} /\ UNCHANGED dirFailed
               \/ dirFailed' = TRUE
            /\ cpc' = "add"
            /\ UNCHANGED <<dirVars, unread, m_lstFiles>>

\* The path of -f need not exist.
AddFile == /\ cpc = "add"
           /\ m_lstFiles' = IF m_sFilePath THEN Append(m_lstFiles, File) ELSE m_lstFiles
           /\ cpc' = "done"
           /\ UNCHANGED <<dirVars, unread, dirFailed>>

\* What is on disk does not change meanwhile.
Init == /\ content \in SUBSET Names
        /\ regular \in {r \in SUBSET Paths :
                          \A e \in Entries : <<"slash", e>> \in r => e \in content}
        /\ cpc = "search" /\ unread = {} /\ dirFailed = FALSE
        /\ m_lstFiles = <<>>

Next == OpenDir \/ NoDir \/ (\E e \in Entries : ReadDir(e)) \/ CloseDir \/ AddFile
===============================================================================
