CONSTANTS
  e1 = e1
  alice = alice
  bob = bob
  yes = yes
  no = no
  n1 = n1
  n2 = n2
  n3 = n3
  Outsider = Outsider
  NoVote = NoVote
  NoElection = NoElection
  NoVerdict = NoVerdict
  Elections <- MCElections
  Users <- MCUsers
  Votes <- MCVotes
  Nodes <- MCNodes
  Byzantine = {}
  ChunksPerBallot = 1
  MaxRestarts = 0
SPECIFICATION SpecDkg
PROPERTY DkgShareKept
