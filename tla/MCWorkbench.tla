----------------------------- MODULE MCWorkbench -----------------------------
(* An instance of Workbench.                                               *)
EXTENDS Workbench

\* Two agent containers of one Compose project and a plain one; 1 and 2: letters.
A == [id |-> <<1, 1>>, agent |-> TRUE,  project |-> "compose", hits |-> {}]
B == [id |-> <<1, 2>>, agent |-> TRUE,  project |-> "compose", hits |-> {"q"}]
C == [id |-> <<2, 2>>, agent |-> FALSE, project |-> NoDetail,  hits |-> {"q"}]

\* Units such as ssh.service, and a reverse-domain name with a deeper one below it.
Ssh    == [name |-> <<"ssh", "service">>, hits |-> {"q"}]
Web    == [name |-> <<"com", "shop", "web">>, hits |-> {}]
Worker == [name |-> <<"com", "shop", "web", "worker">>, hits |-> {"q"}]

\* In Fewer the shell has ended and its service is left, and a service of the
\* server is gone.
Shell  == [pid |-> 1, user |-> 1, cpu |-> 2, mem |-> 1, links |-> {Ssh.name}, hits |-> {"q"}]
Server == [pid |-> 2, user |-> 1, cpu |-> 1, mem |-> 2, links |-> {Web.name, Worker.name}, hits |-> {}]

Both  == [containers |-> <<A, B, C>>, processes |-> <<Server, Shell>>, services |-> <<Ssh, Web, Worker>>]
Fewer == [containers |-> <<C, B>>, processes |-> <<Server>>, services |-> <<Worker, Ssh>>]

MCPayloads == {Both, Fewer}
MCTypedIds == {<<1>>, <<1, 1>>}

MCInsights == {[type |-> "CPU_SPIKE", subject |-> NoDetail, name |-> NoDetail, detectedAt |-> 1],
               [type |-> "CPU_SPIKE", subject |-> NoDetail, name |-> NoDetail, detectedAt |-> 2],
               [type |-> "CONTAINER_FLAP", subject |-> "c", name |-> "n", detectedAt |-> 1],
               [type |-> "CONTAINER_FLAP", subject |-> NoDetail, name |-> "n", detectedAt |-> 2],
               [type |-> "DISK_FILLING", subject |-> "/", name |-> NoDetail, detectedAt |-> 1]}
==============================================================================
