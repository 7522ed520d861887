------------------------------ MODULE AtomicFile -----------------------------
(* What the data storage promises: a write replaces its file in one step by  *)
(* its whole data, or returns an error and leaves it alone, also when the    *)
(* power fails in between. Nothing is promised to writes of one file that    *)
(* are under way together, and to one that was not told of a flash error.    *)
EXTENDS Sequences

CONSTANTS Tasks, Files, Data, Absent, NoCall

VARIABLES
    content,  \* of each file: a sequence of records, or Absent
    call,     \* what each task has called
    answer,   \* what its last call returned
    excused   \* the tasks whose call nothing is promised to

vars == <<content, call, answer, excused>>

Writes(c) == c # NoCall /\ c.type \in {"write", "append"}

Rivals(t, c) ==
    {u \in Tasks \ {t} : Writes(c) /\ Writes(call[u]) /\ call[u].file = c.file}

Init ==
    /\ content = [f \in Files |-> Absent]
    /\ call = [t \in Tasks |-> NoCall]
    /\ answer = [t \in Tasks |-> "none"]
    /\ excused = {}

Begin(t, c) ==
    /\ call[t] = NoCall
    /\ call' = [call EXCEPT ![t] = c]
    /\ answer' = [answer EXCEPT ![t] = "none"]
    /\ excused' = IF Rivals(t, c) = {} THEN excused \ {t} ELSE excused \cup Rivals(t, c) \cup {t}
    /\ UNCHANGED content

(* The flash fails behind the back of the task.                              *)
Excuse(t) ==
    /\ Writes(call[t])
    /\ excused' = excused \cup {t}
    /\ UNCHANGED <<content, call, answer>>

Return(t, rc) ==
    /\ call[t] # NoCall
    /\ call' = [call EXCEPT ![t] = NoCall]
    /\ answer' = [answer EXCEPT ![t] = rc]
    /\ UNCHANGED excused

(* What a file holds after a call that is promised something.                *)
Stored(c, s) ==
    IF c.type = "write" THEN s = <<c.data>>
    ELSE s # <<>> /\ s[Len(s)] = c.data

Store(t, s) ==
    /\ Writes(call[t])
    /\ Return(t, "ok")
    /\ t \in excused \/ Stored(call[t], s)
    /\ content' = [content EXCEPT ![call[t].file] = s]

Erase(t) ==
    /\ call[t] # NoCall
    /\ call[t].type = "erase"
    /\ content' = [content EXCEPT ![call[t].file] = Absent]
    /\ Return(t, "ok")

Look(t) ==
    /\ call[t] # NoCall
    /\ call[t].type = "read"
    /\ Return(t, "ok")
    /\ UNCHANGED content

Fail(t) == Return(t, "error") /\ UNCHANGED content

Restart ==
    /\ call' = [t \in Tasks |-> NoCall]
    /\ answer' = [t \in Tasks |-> "none"]
    /\ excused' = {}
    /\ UNCHANGED content

Format ==
    /\ content' = [f \in Files |-> Absent]
    /\ UNCHANGED <<call, answer, excused>>

Calls == [type : {"write", "append", "erase", "read"}, file : Files, data : Data]

Next ==
    \/ \E t \in Tasks : \/ \E c \in Calls : Begin(t, c)
                        \/ Excuse(t)
                        \/ Store(t, content'[call[t].file])
                        \/ Erase(t)
                        \/ Look(t)
                        \/ Fail(t)
    \/ Restart
    \/ Format

Spec == Init /\ [][Next]_vars
==============================================================================
