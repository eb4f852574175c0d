SPECIFICATION Spec
CONSTANT Disruptions = 4
INVARIANTS TypeOK OneFormat OpensAlone LinesBetweenThem
PROPERTY ReturnsUnlessLost
