------------------------------ MODULE MCSampler ------------------------------
(* Small instance of Sampler for TLC: a process whose stack is shallower    *)
(* and deeper than a record, one whose name and kernel stack cannot be      *)
(* read, one whose user stack cannot, and the idle task.                    *)
EXTENDS Sampler

Task1 == [tgid |-> 7, comm |-> "app", kernel |-> <<91>>, user |-> <<1>>]
Task2 == [tgid |-> 7, comm |-> "app", kernel |-> <<>>, user |-> <<3, 2, 1>>]
Task3 == [tgid |-> 8, comm |-> Fault, kernel |-> Fault, user |-> <<5, 4>>]
Task4 == [tgid |-> 8, comm |-> "other", kernel |-> <<92, 91>>, user |-> Fault]
Idle  == [tgid |-> 0, comm |-> "swapper", kernel |-> <<93>>, user |-> Fault]
SomeTasks == {Task1, Task2, Task3, Task4, Idle}
=============================================================================
